---- MODULE Spec2Model ----
(***************************************************************************)
(* Spelling game: the round state machine of SpellingGame, the session     *)
(* ledger and per-player performance store of SessionManager, and the word *)
(* scheduler of WordManager.                                               *)
(*                                                                         *)
(* Every async handler of SpellingGame is a task: a record holding the     *)
(* await it is suspended at and the locals it captured.  One action of the *)
(* model is the code that runs between two awaits.  Times are abstracted:  *)
(* a delay or a narration may end at any moment, the deadline timer may    *)
(* fire at any moment while it is pending.                                 *)
(***************************************************************************)
EXTENDS Integers, Sequences, FiniteSets, Bags, TLC

\* ---------------------------------------------------------------- bounds
MaxRounds == 6      \* words served over a run without a quit
MaxCleanRounds == 72 \* words served over a run without quit, miss or timeout
MaxLevel == 20      \* levels the deadline formula is compared over
MaxQuitRounds == 3  \* words served over a run with a quit
MaxGames == 2       \* startGame calls over a run
MaxQuits == 1       \* quitGame calls over a run
MaxMisses == 4      \* incorrect answers and timeouts over a run
MaxStoreOps == 3    \* direct store calls in the store specification
MaxWordOps == 7     \* direct WordManager calls in the WordManager specification
MaxFailRounds == 1  \* words served until the storage stops changing its behaviour
MaxAge == 16        \* age of a record, in units of 8 hours, when its score is computed
MaxCount == 4       \* counters of a record whose score is computed
MaxTimeouts == 10    \* timeouts of a record of a word that only ever timed out
MaxPick == 0        \* places after the first, besides its own, that a shuffle step draws from
MaxTierSteps == 200  \* steps of 50 ms up to the longest response time of a speed tier call
MaxEntryLen == 6     \* characters of an entry parseWordEntry is called with
MaxInputLen == 4     \* characters of a value of the word input

\* ------------------------------------------------------- program constants
MaxLives == 3           \* startGame: this.state.lives = 3
BaseSpeed == 8000       \* getObstacleSpeedForLevel: baseSpeed
SpeedDecrease == 400    \* getObstacleSpeedForLevel: speedDecrease
MinSpeed == 2500        \* getObstacleSpeedForLevel: minSpeed
LevelUpEvery == 5       \* handleCorrectAnswer: wordsCompletedCorrectly % 5
BucketSize == 10        \* createWeightedShuffledList: bucketSize
UnseenScore == 1000     \* calculatePriorityScore: never seen before
UnitsPerDay == 3        \* time is counted in units of 8 hours

\* ------------------------------------------------------------ model inputs
Difficulties == {"easy", "medium", "hard"}
Profiles == {"ann"}
StorePlayers == {"ann", "bob"}
Words == [easy |-> <<"cat", "dog">>, medium |-> <<"house">>, hard |-> <<"rhythm">>]
AllWords == {"cat", "dog", "house", "rhythm"}
ResponseTimes == {1400}   \* ms between obstacle start and submit

NoWord == [text |-> "", difficulty |-> ""]
NoProfile == ""
NoSession == [email |-> "", totalScore |-> 0, livesRemaining |-> 0,
              wordsPlayed |-> <<>>, open |-> FALSE]
NoTimer == 0
NoCall == [op |-> "none"]
NoWordCall == [op |-> "none", n |-> 0]
EmptyMap == [w \in {} |-> 0]

Phases == {"idle", "speaking", "waiting-input", "validating", "jumping",
           "crashing", "level-up", "game-over"}

VARIABLES
    \* SpellingGame fields
    phase, currentWord, currentWordAttempts, score, lives, level,
    wordsCompletedCorrectly, comboCount, isGameOver, isPlaying,
    currentProfile, difficulty,
    currentWordStartTime,   \* 0 until the first word is served, then > 0
    answerSubmitted,        \* answerSubmitTime > 0
    responseTime,           \* answerSubmitTime - obstacleStartTime at submit
    obstacleTimeoutId,      \* id of the deadline timer, NoTimer for null
    \* browser
    timers,                 \* ids of the pending deadline timers
    tasks,                  \* suspended async handlers
    inputDisabled,          \* wordInput.disabled
    startVisible, gameVisible, gameOverVisible,   \* screens without 'hidden'
    \* SessionManager and localStorage
    currentSession, sessions, wordPerformance,
    \* WordManager
    sessionWordLists, sessionWordIndices,
    \* bookkeeping of the run
    nServed, nGames, nQuits, nStoreOps, nMisses,
    lastStoreCall,          \* the last direct call of the store, with its arguments
    lastWordCall,           \* the last direct call of the WordManager, with its result
    lastGameCall,           \* the last direct call of a helper of SpellingGame, with its result
    narrationFailed,        \* the last narration awaited by a handler was rejected
    storageOk,              \* localStorage.setItem succeeds
    afterQuit,              \* quitGame has run and startGame has not run since
    \* history of the round in flight
    roundAppends, roundUpdates, lastRoundAppends, lastRoundUpdates,
    answeredAndTimedOut

gameVars == <<phase, currentWord, currentWordAttempts, score, lives, level,
              wordsCompletedCorrectly, comboCount, isGameOver, isPlaying,
              currentProfile, difficulty, currentWordStartTime,
              answerSubmitted, responseTime, obstacleTimeoutId>>
browserVars == <<timers, tasks, inputDisabled, startVisible, gameVisible,
                 gameOverVisible>>
storeVars == <<currentSession, sessions, wordPerformance>>
wordVars == <<sessionWordLists, sessionWordIndices>>
callVars == <<nStoreOps, lastStoreCall, lastWordCall, lastGameCall, narrationFailed, storageOk>>
runVars == <<nServed, nGames, nQuits, nStoreOps, nMisses, lastStoreCall, lastWordCall, lastGameCall,
            narrationFailed, storageOk,
            afterQuit>>
histVars == <<roundAppends, roundUpdates, lastRoundAppends, lastRoundUpdates,
              answeredAndTimedOut>>
vars == <<gameVars, browserVars, storeVars, wordVars, runVars, histVars>>

\* ------------------------------------------------------------- level rules
\* a slip: the tiers change one level early
getDifficultyForLevelEarly(lvl) ==
    IF lvl < 3 THEN "easy" ELSE IF lvl < 6 THEN "medium" ELSE "hard"

getDifficultyForLevel(lvl) ==
    IF lvl <= 3 THEN "easy" ELSE IF lvl <= 6 THEN "medium" ELSE "hard"

Max(a, b) == IF a >= b THEN a ELSE b
Min(a, b) == IF a <= b THEN a ELSE b

\* a slip: the speed has no floor
getObstacleSpeedNoFloor(lvl) == BaseSpeed - (lvl - 1) * SpeedDecrease

getObstacleSpeedForLevel(lvl) ==
    Max(MinSpeed, BaseSpeed - (lvl - 1) * SpeedDecrease)

\* obstacleReachTime = speed * 0.6, kept times ten to stay in the integers
obstacleReachTime10(lvl) == getObstacleSpeedForLevel(lvl) * 6

\* ----------------------------------------------------------------- scoring
calculateScore(attempts) ==
    CASE attempts = 1 -> 20
      [] attempts = 2 -> 10
      [] attempts = 3 -> 5
      [] OTHER -> 2

\* a slip: a value exactly at a boundary falls into the faster tier
calculateSpeedMultiplierInclusive(rt, total10) ==
    IF rt * 1000 <= 30 * total10 THEN [multiplier |-> 200, tier |-> "lightning"]
    ELSE IF rt * 1000 <= 50 * total10 THEN [multiplier |-> 150, tier |-> "fast"]
    ELSE IF rt * 1000 <= 70 * total10 THEN [multiplier |-> 125, tier |-> "good"]
    ELSE [multiplier |-> 100, tier |-> "normal"]

\* a slip: the fast tier reaches up to 70% of the time
calculateSpeedMultiplierNoGood(rt, total10) ==
    IF rt * 1000 < 30 * total10 THEN [multiplier |-> 200, tier |-> "lightning"]
    ELSE IF rt * 1000 < 70 * total10 THEN [multiplier |-> 150, tier |-> "fast"]
    ELSE [multiplier |-> 100, tier |-> "normal"]

\* timePercentage = responseTime / totalTime * 100 against 30, 50, 70;
\* the multiplier is kept times 100
calculateSpeedMultiplier(rt, total10) ==
    IF rt * 1000 < 30 * total10 THEN [multiplier |-> 200, tier |-> "lightning"]
    ELSE IF rt * 1000 < 50 * total10 THEN [multiplier |-> 150, tier |-> "fast"]
    ELSE IF rt * 1000 < 70 * total10 THEN [multiplier |-> 125, tier |-> "good"]
    ELSE [multiplier |-> 100, tier |-> "normal"]

\* the multiplier is kept times 10
calculateComboMultiplier(combo) ==
    IF combo >= 5 THEN 15
    ELSE IF combo >= 4 THEN 13
    ELSE IF combo >= 3 THEN 12
    ELSE IF combo >= 2 THEN 11
    ELSE 10

\* Math.round(basePoints * speedMultiplier * comboMultiplier)
finalPointsOf(base, speed100, combo10) == (base * speed100 * combo10 + 500) \div 1000

\* -------------------------------------------------- SessionManager: store
\* A WordResult of the model: attempts holds the 'correct' flag of each attempt.
\* Date.now(): the runs of the model are short against the unit of time
Now == MaxAge

NewRecord(word) ==
    [word |-> word, timesCorrectFirstTry |-> 0, timesMistakes |-> 0,
     timesTimeout |-> 0, totalAttempts |-> 0, lastSeen |-> 0]

\* String.prototype.toLowerCase on the words of the model
toLowerCase(word) == IF word = "Cat" THEN "cat" ELSE word

\* a slip: the first attempt decides, whatever follows it
BucketOfFirstAttempt(wordResult) ==
    IF wordResult.timedOut THEN "timesTimeout"
    ELSE IF Len(wordResult.attempts) >= 1 /\ wordResult.attempts[1]
         THEN "timesCorrectFirstTry"
         ELSE "timesMistakes"

\* the bucket one result is counted in
BucketOf(wordResult) ==
    IF wordResult.timedOut THEN "timesTimeout"
    ELSE IF Len(wordResult.attempts) = 1 /\ wordResult.attempts[1]
         THEN "timesCorrectFirstTry"
         ELSE "timesMistakes"

getWordPerformance(all, playerName) ==
    IF playerName \in DOMAIN all THEN all[playerName] ELSE EmptyMap

\* a slip: the bucket is counted, totalAttempts is not
UpdatedRecordBucketOnly(existing, wordResult) ==
    [existing EXCEPT ![BucketOf(wordResult)] = @ + 1]

\* the record of word after one more result
UpdatedRecord(existing, wordResult) ==
    LET bucket == BucketOf(wordResult)
        bumped == [existing EXCEPT !.totalAttempts = @ + 1, !.lastSeen = Now]
    IN  [bumped EXCEPT ![bucket] = @ + 1]

updateWordPerformance(all, playerName, wordResult) ==
    LET playerPerformance == getWordPerformance(all, playerName)
        word == toLowerCase(wordResult.word)
        existing == IF word \in DOMAIN playerPerformance
                    THEN playerPerformance[word] ELSE NewRecord(word)
        updated == UpdatedRecord(existing, wordResult)
        newPlayer == [w \in DOMAIN playerPerformance \cup {word} |->
                        IF w = word THEN updated ELSE playerPerformance[w]]
    IN  [p \in DOMAIN all \cup {playerName} |->
            IF p = playerName THEN newPlayer ELSE all[p]]

\* a slip: the data of every player is removed
clearWordPerformanceOfAll(all, playerName) == EmptyMap

\* clearWordPerformance(playerName): delete allPerformance[playerName]
clearWordPerformance(all, playerName) ==
    [p \in DOMAIN all \ {playerName} |-> all[p]]

\* clearWordPerformance(): localStorage.removeItem
clearAllWordPerformance(all) == EmptyMap

\* ------------------------------------------------ SessionManager: sessions
createSession(email) ==
    [email |-> email, totalScore |-> 0, livesRemaining |-> 3,
     wordsPlayed |-> <<>>, open |-> TRUE]

updateSessionScore(session, s) ==
    IF session.open THEN [session EXCEPT !.totalScore = s] ELSE session

updateSessionLives(session, l) ==
    IF session.open THEN [session EXCEPT !.livesRemaining = l] ELSE session

addWordResult(session, wordResult) ==
    IF session.open
    THEN [session EXCEPT !.wordsPlayed = Append(@, wordResult)]
    ELSE session

\* localStorage.setItem(key, value) where stored is the value under key: the
\* value is replaced unless the write fails
setItem(ok, stored, value) == IF ok THEN value ELSE stored

\* a slip: the error of a failed write leaves the store method
storeMethodThrowsUncaught(ok) == ~ok

\* whether saveSession or updateWordPerformance throws to its caller, ok
\* being the outcome of its setItem: both catch the error and log it
storeMethodThrows(ok) == FALSE

\* endSession: saveSession pushes the session on the stored list and writes it
endSessionSaved(session, stored) ==
    IF session.open
    THEN setItem(storageOk, stored, Append(stored, session)) ELSE stored

\* --------------------------------------------------------- WordManager
\* A string of the word list is the sequence of its characters; the en dash
\* and the em dash are written "en" and "em".  The game and the stores of the
\* model hold a string by its name; Strings gives the characters of each.
Strings ==
    {<<"cat", <<"c", "a", "t">>>>,
     <<"dog", <<"d", "o", "g">>>>,
     <<"sun", <<"s", "u", "n">>>>,
     <<"hat", <<"h", "a", "t">>>>,
     <<"pen", <<"p", "e", "n">>>>,
     <<"cup", <<"c", "u", "p">>>>,
     <<"bed", <<"b", "e", "d">>>>,
     <<"box", <<"b", "o", "x">>>>,
     <<"fox", <<"f", "o", "x">>>>,
     <<"map", <<"m", "a", "p">>>>,
     <<"jar", <<"j", "a", "r">>>>,
     <<"house", <<"h", "o", "u", "s", "e">>>>,
     <<"rhythm", <<"r", "h", "y", "t", "h", "m">>>>,
     <<"Cat", <<"C", "a", "t">>>>,
     <<"car", <<"c", "a", "r">>>>,
     <<"sun - a star", <<"s", "u", "n", " ", "-", " ", "a", " ", "s", "t", "a", "r">>>>}
Chars(string) == (CHOOSE p \in Strings : p[1] = string)[2]
Str(chars) == (CHOOSE p \in Strings : p[2] = chars)[1]

\* String.prototype.trim: the blank is the white space of the model
WhiteSpace == {" "}
trim(str) ==
    LET inked == {i \in 1..Len(str) : str[i] \notin WhiteSpace}
    IN  IF inked = {} THEN <<>>
        ELSE SubSeq(str, CHOOSE i \in inked : \A j \in inked : i <= j,
                         CHOOSE i \in inked : \A j \in inked : i >= j)

\* String.prototype.indexOf, counted from 0, -1 when absent
indexOf(str, searchString) ==
    LET hits == {i \in 0..(Len(str) - Len(searchString)) :
                    SubSeq(str, i + 1, i + Len(searchString)) = searchString}
    IN  IF hits = {} THEN -1 ELSE CHOOSE i \in hits : \A j \in hits : i <= j

\* String.prototype.substring(start, end), counted from 0
substring(str, start, end) == SubSeq(str, start + 1, end)

DESCRIPTION_SEPARATORS ==
    <<(<<" ", "-", " ">>), (<<" ", "en", " ">>), (<<" ", "em", " ">>)>>

\* the result of parseWordEntry; described = FALSE stands for a description
\* that is undefined
Parsed(text, description) ==
    [text |-> text, described |-> description # <<>>, description |-> description]

\* a slip: only ' - ' separates a description
parseWordEntryHyphenOnly(entry) ==
    LET separatorIndex == indexOf(entry, DESCRIPTION_SEPARATORS[1])
        text == trim(substring(entry, 0, separatorIndex))
        description == trim(substring(entry, separatorIndex + 3, Len(entry)))
    IN  IF separatorIndex = -1 THEN Parsed(entry, <<>>)
        ELSE IF text = <<>> THEN Parsed(entry, <<>>)
        ELSE Parsed(text, description)

\* parseWordEntry: the entry is split at the earliest separator
parseWordEntry(entry) ==
    LET index(k) == indexOf(entry, DESCRIPTION_SEPARATORS[k])
        found == {k \in 1..Len(DESCRIPTION_SEPARATORS) : index(k) # -1}
        first == CHOOSE k \in found :
                    \A m \in found : index(k) < index(m)
                                        \/ (index(k) = index(m) /\ k <= m)
        separatorIndex == index(first)
        separatorLength == Len(DESCRIPTION_SEPARATORS[first])
        text == trim(substring(entry, 0, separatorIndex))
        description == trim(substring(entry, separatorIndex + separatorLength,
                                      Len(entry)))
    IN  IF found = {} THEN Parsed(entry, <<>>)
        ELSE IF text = <<>> THEN Parsed(entry, <<>>)
        ELSE Parsed(text, description)

\* the text of an entry of the word list, by name
textOf(wordEntry) == Str(parseWordEntry(Chars(wordEntry)).text)

\* a slip: the score is not floored at 0
calculatePriorityScoreNoFloor(word, performanceMap) ==
    IF toLowerCase(word) \notin DOMAIN performanceMap THEN UnseenScore
    ELSE LET perf == performanceMap[toLowerCase(word)]
             s1 == 100 - perf.timesCorrectFirstTry * 30
                       + perf.timesTimeout * 100 + perf.timesMistakes * 80
             low == 2 * perf.timesCorrectFirstTry < Max(perf.totalAttempts, 1)
                    /\ perf.totalAttempts >= 2
             s2 == IF low THEN s1 + 50 ELSE s1
             age == Now - perf.lastSeen
         IN  IF age > UnitsPerDay
             THEN s2 + Min((age * 3) \div UnitsPerDay, 15) ELSE s2

\* a slip: a success rate of exactly one half counts as low
calculatePriorityScoreHalfIsLow(word, performanceMap) ==
    IF toLowerCase(word) \notin DOMAIN performanceMap THEN UnseenScore
    ELSE LET perf == performanceMap[toLowerCase(word)]
             s1 == 100 - perf.timesCorrectFirstTry * 30
                       + perf.timesTimeout * 100 + perf.timesMistakes * 80
             low == 2 * perf.timesCorrectFirstTry <= Max(perf.totalAttempts, 1)
                    /\ perf.totalAttempts >= 2
             s2 == IF low THEN s1 + 50 ELSE s1
             age == Now - perf.lastSeen
             s3 == IF age > UnitsPerDay
                   THEN s2 + Min((age * 3) \div UnitsPerDay, 15) ELSE s2
         IN  Max(s3, 0)

calculatePriorityScore(word, performanceMap) ==
    IF toLowerCase(word) \notin DOMAIN performanceMap THEN UnseenScore
    ELSE LET perf == performanceMap[toLowerCase(word)]
             s1 == 100 - perf.timesCorrectFirstTry * 30
                       + perf.timesTimeout * 100 + perf.timesMistakes * 80
             \* successRate < 0.5: 2 * correct < max(total, 1)
             low == 2 * perf.timesCorrectFirstTry < Max(perf.totalAttempts, 1)
                    /\ perf.totalAttempts >= 2
             s2 == IF low THEN s1 + 50 ELSE s1
             \* daysSinceLastSeen = age / UnitsPerDay
             age == Now - perf.lastSeen
             s3 == IF age > UnitsPerDay
                   THEN s2 + Min((age * 3) \div UnitsPerDay, 15) ELSE s2
         IN  Max(s3, 0)

\* the places of a list, sorted by score descending; Array.prototype.sort is
\* stable, so equal scores keep their configured order
SortedPlaces(wordList, performanceMap) ==
    LET n == Len(wordList)
        sc(i) == calculatePriorityScore(textOf(wordList[i]), performanceMap)
        rank(i) == 1 + Cardinality({j \in 1..n :
                        sc(j) > sc(i) \/ (sc(j) = sc(i) /\ j < i)})
    IN  [k \in 1..n |-> CHOOSE i \in 1..n : rank(i) = k]

\* the draws of Math.random in shuffleArray at place i (places count from 1
\* here): the first 1 + MaxPick places and i itself
ShufflePicks(i) == {j \in 1..i : j <= 1 + MaxPick \/ j = i}

Swap(array, i, j) ==
    [k \in 1..Len(array) |->
        IF k = i THEN array[j] ELSE IF k = j THEN array[i] ELSE array[k]]

\* shuffleArray (Fisher-Yates): for i from the last place down to the second,
\* swap place i with a drawn place j <= i; the set of outcomes
RECURSIVE shuffleArrayFrom(_, _)
shuffleArrayFrom(array, i) ==
    IF i < 2 THEN {array}
    ELSE UNION {shuffleArrayFrom(Swap(array, i, j), i - 1) : j \in ShufflePicks(i)}
shuffleArray(array) == shuffleArrayFrom(array, Len(array))

\* the loop of createWeightedShuffledList from place start on: each slice of
\* bucketSize entries is shuffled and appended to the result
RECURSIVE ShuffledBuckets(_, _)
ShuffledBuckets(sorted, start) ==
    IF start > Len(sorted) THEN {<<>>}
    ELSE {bucket \o rest :
            bucket \in shuffleArray(SubSeq(sorted, start,
                                  Min(start + BucketSize - 1, Len(sorted)))),
            rest \in ShuffledBuckets(sorted, start + BucketSize)}

\* a slip: the whole list is shuffled, not each bucket
createWeightedShuffledListNoBuckets(wordList, performanceMap) ==
    LET sorted == SortedPlaces(wordList, performanceMap)
    IN  shuffleArray([k \in 1..Len(wordList) |-> wordList[sorted[k]]])

\* every list createWeightedShuffledList can return: the entries sorted by
\* score, each bucket of bucketSize shuffled
createWeightedShuffledList(wordList, performanceMap) ==
    LET sorted == SortedPlaces(wordList, performanceMap)
    IN  ShuffledBuckets([k \in 1..Len(wordList) |-> wordList[sorted[k]]], 1)

\* initializeSessionWords of a WordManager configured with words: one
\* shuffled list per difficulty
SessionWordListsOf(words, performanceMap) ==
    {[easy |-> e, medium |-> m, hard |-> h] :
        e \in createWeightedShuffledList(words.easy, performanceMap),
        m \in createWeightedShuffledList(words.medium, performanceMap),
        h \in createWeightedShuffledList(words.hard, performanceMap)}

\* initializeSessionWords of the game's WordManager
SessionWordLists(performanceMap) == SessionWordListsOf(Words, performanceMap)

ZeroIndices == [easy |-> 0, medium |-> 0, hard |-> 0]

\* a slip: no check for a missing or empty list
getNextWordUnchecked(lists, indices, d) ==
    [ok |-> TRUE, word |-> NoWord,
     indices |-> [x \in DOMAIN indices \cup {d} |->
                    IF x = d THEN 1 ELSE indices[x]]]

\* a slip: at the end of the list the cursor stays on the last entry
getNextWordNoWrap(lists, indices, d) ==
    IF d \notin DOMAIN lists \/ Len(lists[d]) = 0
    THEN [ok |-> FALSE, word |-> NoWord, indices |-> indices]
    ELSE LET index0 == IF d \in DOMAIN indices THEN indices[d] ELSE 0
             index == IF index0 >= Len(lists[d]) THEN Len(lists[d]) - 1 ELSE index0
             entry == lists[d][index + 1]
         IN  [ok |-> TRUE,
              word |-> [text |-> textOf(entry), difficulty |-> d],
              indices |-> [x \in DOMAIN indices \cup {d} |->
                             IF x = d THEN index + 1 ELSE indices[x]]]

\* getNextWord: ok = FALSE stands for the thrown Error
getNextWord(lists, indices, d) ==
    IF d \notin DOMAIN lists \/ Len(lists[d]) = 0
    THEN [ok |-> FALSE, word |-> NoWord, indices |-> indices]
    ELSE LET index0 == IF d \in DOMAIN indices THEN indices[d] ELSE 0
             index == IF index0 >= Len(lists[d]) THEN 0 ELSE index0
             entry == lists[d][index + 1]
         IN  [ok |-> TRUE,
              word |-> [text |-> textOf(entry), difficulty |-> d],
              indices |-> [x \in DOMAIN indices \cup {d} |->
                             IF x = d THEN index + 1 ELSE indices[x]]]

\* ------------------------------------------------------ SpellingGame: save
\* The WordResult saveWordResult(timedOut) builds; lvl is this.state.level at
\* the call.  Multipliers are scaled as in the scoring operators.
WordResultOf(timedOut, lvl) ==
    LET n == Len(currentWordAttempts)
        reach10 == obstacleReachTime10(lvl)
        rt10 == IF answerSubmitted THEN responseTime * 10 ELSE reach10
        baseScore == calculateScore(n)
        lastAttemptCorrect == n > 0 /\ currentWordAttempts[n]
        isFirstTryCorrect == n = 1 /\ lastAttemptCorrect
        speedInfo == calculateSpeedMultiplier(responseTime, reach10)
        combo == IF isFirstTryCorrect THEN comboCount ELSE 0
        comboMult == IF isFirstTryCorrect THEN calculateComboMultiplier(combo) ELSE 10
        plain == [word |-> currentWord.text, attempts |-> currentWordAttempts,
                  scoreEarned |-> 0, speedMultiplier |-> 100, speedTier |-> "normal",
                  comboMultiplier |-> 10, comboCount |-> 0, responseTime10 |-> rt10,
                  level |-> lvl, timedOut |-> timedOut]
    IN  IF timedOut THEN plain
        ELSE IF lastAttemptCorrect /\ answerSubmitted
        THEN [plain EXCEPT
                !.speedMultiplier = speedInfo.multiplier,
                !.speedTier = speedInfo.tier,
                !.comboMultiplier = comboMult,
                !.comboCount = combo,
                !.scoreEarned = finalPointsOf(baseScore, speedInfo.multiplier, comboMult)]
        ELSE [plain EXCEPT !.scoreEarned = baseScore]

\* what a handler has written so far in the step being taken: the open session,
\* the store, and the appends and store updates counted for the current word
Written ==
    [session |-> currentSession, perf |-> wordPerformance,
     app |-> roundAppends, upd |-> roundUpdates, threw |-> FALSE]

\* a slip: the session is ended before the result is added, so that
\* addWordResult finds no current session
saveWordResultSessionEnded(w, profile, timedOut, lvl) ==
    IF currentWord = NoWord THEN w
    ELSE LET r == WordResultOf(timedOut, lvl)
         IN  [session |-> w.session,
              perf |-> IF profile # NoProfile
                       THEN setItem(storageOk, w.perf,
                                    updateWordPerformance(w.perf, profile, r))
                       ELSE w.perf,
              app |-> w.app,
              upd |-> w.upd + (IF profile # NoProfile THEN 1 ELSE 0),
              threw |-> profile # NoProfile /\ storeMethodThrows(storageOk)]

\* saveWordResult(timedOut): addWordResult, then updateWordPerformanceByEmail
\* when a profile is set; threw tells whether the call ended with an error
saveWordResult(w, profile, timedOut, lvl) ==
    IF currentWord = NoWord THEN w
    ELSE LET r == WordResultOf(timedOut, lvl)
         IN  [session |-> addWordResult(w.session, r),
              perf |-> IF profile # NoProfile
                       THEN setItem(storageOk, w.perf,
                                    updateWordPerformance(w.perf, profile, r))
                       ELSE w.perf,
              app |-> w.app + (IF w.session.open THEN 1 ELSE 0),
              upd |-> w.upd + (IF profile # NoProfile THEN 1 ELSE 0),
              threw |-> profile # NoProfile /\ storeMethodThrows(storageOk)]

\* a slip: no try around 'await this.audioManager.speak(word)'
speakWordUncaught(resolved) == resolved

\* speakWord: whether 'await this.speakWord(word)' returns to the handler;
\* resolved is the outcome of the promise of audioManager.speak, whose
\* rejection is caught
speakWord(resolved) == TRUE

\* a suspended handler: the await it waits at, finalPoints and correctAnswer
Task(pc, points, answer) == [pc |-> pc, points |-> points, answer |-> answer]

Spawn(bag, t) == bag (+) SetToBag({t})
Finish(bag, t) == bag (-) SetToBag({t})

\* a pending deadline timer; answered is set when an answer was submitted in
\* the waiting-input entry the timer was armed for
\* a pending setTimeout of the deadline: its id, its delay in ms, and whether
\* an answer was submitted while it was pending
Timer(id, delay) == [id |-> id, answered |-> FALSE, delay |-> delay]
FreshTimerId(pending) ==
    CHOOSE i \in 1..(Cardinality(pending) + 1) :
        /\ \A tm \in pending : tm.id # i
        /\ \A j \in 1..(i - 1) : \E tm \in pending : tm.id = j
MarkAnswered(pending) == {[tm EXCEPT !.answered = TRUE] : tm \in pending}

\* a slip: the id is forgotten but clearTimeout is not called
clearObstacleTimeoutKeepsTimer(pending, id) == pending

\* clearObstacleTimeout: clearTimeout(obstacleTimeoutId), the id set to null
clearObstacleTimeout(pending, id) == {tm \in pending : tm.id # id}

\* obstacleReachTime = speed * 0.6 of the level lvl, in ms
obstacleReachTime(lvl) == obstacleReachTime10(lvl) \div 10

\* a slip: the new timer is set without clearing the previous one
ArmTimerNoClear(lvl) ==
    /\ timers' = timers \cup {Timer(FreshTimerId(timers), obstacleReachTime(lvl))}
    /\ obstacleTimeoutId' = FreshTimerId(timers)

\* clearObstacleTimeout, then obstacleTimeoutId = setTimeout(...,
\* obstacleReachTime) with the speed of the level lvl
ArmTimer(lvl) ==
    LET cleared == clearObstacleTimeout(timers, obstacleTimeoutId)
        id == FreshTimerId(cleared)
    IN  /\ timers' = cleared \cup {Timer(id, obstacleReachTime(lvl))}
        /\ obstacleTimeoutId' = id

\* the words a run may still be served
RoundsAllowed ==
    IF nQuits > 0 THEN MaxQuitRounds
    ELSE IF nMisses = 0 THEN MaxCleanRounds ELSE MaxRounds

\* the run may still see an incorrect answer or a timeout
MissAllowed == nMisses < MaxMisses /\ nServed <= MaxRounds

\* nextRound up to its first await.  over is state.isGameOver, w what the
\* caller has written, lvl, lists, indices and profile the values the caller
\* leaves in the state, rest the other tasks.
\* A throw of getNextWord leaves phase = 'speaking' and ends the handler.
nextRound(over, w, lvl, lists, indices, profile, rest) ==
    LET w1 == IF ~over /\ ~w.threw /\ currentWord # NoWord
                 /\ currentWordStartTime > 0
              THEN saveWordResult(w, profile, FALSE, lvl) ELSE w
    IN
    \* the game is over, or the caller or the save ended with an error
    IF over \/ w1.threw
    THEN /\ currentSession' = w1.session /\ wordPerformance' = w1.perf
         /\ roundAppends' = w1.app /\ roundUpdates' = w1.upd
         /\ tasks' = rest
         /\ sessionWordIndices' = indices
         /\ UNCHANGED <<phase, difficulty, currentWord, currentWordAttempts,
                        currentWordStartTime, inputDisabled, nServed,
                        lastRoundAppends, lastRoundUpdates>>
    ELSE LET d == getDifficultyForLevel(lvl)
             got == getNextWord(lists, indices, d)
         IN  /\ phase' = "speaking"
             /\ difficulty' = d
             /\ currentSession' = w1.session /\ wordPerformance' = w1.perf
             /\ sessionWordIndices' = got.indices
             /\ IF got.ok
                THEN /\ nServed < RoundsAllowed
                     /\ nServed' = nServed + 1
                     /\ currentWord' = got.word
                     /\ currentWordAttempts' = <<>>
                     /\ currentWordStartTime' = 1
                     /\ inputDisabled' = TRUE
                     /\ tasks' = Spawn(rest, Task("nr_speak", 0, ""))
                     /\ lastRoundAppends' = w1.app /\ lastRoundUpdates' = w1.upd
                     /\ roundAppends' = 0 /\ roundUpdates' = 0
                ELSE /\ tasks' = rest
                     /\ roundAppends' = w1.app /\ roundUpdates' = w1.upd
                     /\ UNCHANGED <<currentWord, currentWordAttempts,
                                    currentWordStartTime, inputDisabled, nServed,
                                    lastRoundAppends, lastRoundUpdates>>

\* gameOver(): the session is ended and stored, the word lists are cleared
gameOver(w) ==
    /\ wordPerformance' = w.perf
    /\ roundAppends' = w.app /\ roundUpdates' = w.upd
    /\ IF w.threw
       THEN \* the caller ended with an error before gameOver()
            /\ currentSession' = w.session
            /\ UNCHANGED <<isGameOver, phase, sessions, wordVars, gameVisible,
                           gameOverVisible>>
       ELSE /\ isGameOver' = TRUE
            /\ phase' = "game-over"
            /\ sessions' = endSessionSaved(w.session, sessions)
            /\ IF w.session.open /\ storeMethodThrows(storageOk)
               THEN /\ currentSession' = w.session
                    /\ UNCHANGED <<wordVars, gameVisible, gameOverVisible>>
               ELSE /\ currentSession' = NoSession
                    /\ sessionWordLists' = EmptyMap
                    /\ sessionWordIndices' = EmptyMap
                    /\ gameVisible' = FALSE /\ gameOverVisible' = TRUE

\* ------------------------------------------------------------------- Init
Init ==
    /\ phase = "idle" /\ currentWord = NoWord /\ currentWordAttempts = <<>>
    /\ score = 0 /\ lives = MaxLives /\ level = 1
    /\ wordsCompletedCorrectly = 0 /\ comboCount = 0
    /\ isGameOver = FALSE /\ isPlaying = FALSE
    /\ currentProfile = NoProfile /\ difficulty = "easy"
    /\ currentWordStartTime = 0 /\ answerSubmitted = FALSE /\ responseTime = 0
    /\ obstacleTimeoutId = NoTimer
    /\ timers = {} /\ tasks = EmptyBag
    /\ inputDisabled \in BOOLEAN    \* the markup of the input is not in the sources
    /\ startVisible = TRUE /\ gameVisible = FALSE /\ gameOverVisible = FALSE
    /\ currentSession = NoSession /\ sessions = <<>> /\ wordPerformance = EmptyMap
    /\ sessionWordLists = EmptyMap /\ sessionWordIndices = EmptyMap
    /\ nServed = 0 /\ nGames = 0 /\ nQuits = 0 /\ nStoreOps = 0 /\ nMisses = 0
    /\ lastStoreCall = NoCall /\ lastWordCall = NoWordCall /\ lastGameCall = NoCall /\ afterQuit = FALSE
    /\ narrationFailed = FALSE /\ storageOk = TRUE
    /\ roundAppends = 0 /\ roundUpdates = 0
    /\ lastRoundAppends = 0 /\ lastRoundUpdates = 0
    /\ answeredAndTimedOut = FALSE

\* ---------------------------------------------------------------- actions
\* click on the start button with a profile selected: startGame(profile)
StartGame(p, lists) ==
    /\ startVisible
    /\ nGames < MaxGames
    /\ nGames' = nGames + 1
    /\ afterQuit' = FALSE
    /\ currentProfile' = p
    /\ isPlaying' = TRUE
    /\ score' = 0 /\ lives' = MaxLives /\ level' = 1
    /\ wordsCompletedCorrectly' = 0
    /\ isGameOver' = FALSE
    /\ sessionWordLists' = lists
    /\ startVisible' = FALSE /\ gameVisible' = TRUE
    /\ nextRound(FALSE,
                 [Written EXCEPT !.session = createSession(p)],
                 1, lists, ZeroIndices, p, tasks)
    /\ UNCHANGED <<comboCount, answerSubmitted, responseTime, obstacleTimeoutId,
                   timers, gameOverVisible, sessions, nQuits, callVars, nMisses,
                   answeredAndTimedOut>>

\* nextRound after 'await this.speakWord': the narration ended or failed
NextRoundArm(t, resolved) ==
    /\ BagIn(t, tasks) /\ t.pc = "nr_speak"
    /\ tasks' = Finish(tasks, t)
    /\ narrationFailed' = ~resolved
    /\ IF speakWord(resolved)
       THEN /\ phase' = "waiting-input"
            /\ inputDisabled' = FALSE
            /\ ArmTimer(level)
       ELSE UNCHANGED <<phase, inputDisabled, timers, obstacleTimeoutId>>
    /\ UNCHANGED <<currentWord, currentWordAttempts, score, lives, level,
                   wordsCompletedCorrectly, comboCount, isGameOver, isPlaying,
                   currentProfile, difficulty, currentWordStartTime,
                   answerSubmitted, responseTime, startVisible, gameVisible,
                   gameOverVisible, storeVars, wordVars, nServed, nGames, nQuits,
                   nStoreOps, lastStoreCall, lastGameCall, lastWordCall, storageOk, afterQuit,
                   nMisses, roundAppends, roundUpdates, lastRoundAppends,
                   lastRoundUpdates, answeredAndTimedOut>>

\* a slip: the combo multiplier is taken before the combo is updated
handleCorrectAnswerComboBefore(rt, attempts) ==
    LET speedInfo == calculateSpeedMultiplier(rt, obstacleReachTime10(level))
        isFirstTryCorrect == Len(attempts) = 1
        combo == IF isFirstTryCorrect THEN comboCount + 1 ELSE 0
        finalPoints == finalPointsOf(calculateScore(Len(attempts)),
                                     speedInfo.multiplier,
                                     calculateComboMultiplier(comboCount))
    IN  /\ phase' = "jumping"
        /\ comboCount' = combo
        /\ wordsCompletedCorrectly' = wordsCompletedCorrectly + 1
        /\ tasks' = Spawn(tasks, Task("ca_settle", finalPoints, ""))

\* handleCorrectAnswer up to its first await
handleCorrectAnswer(rt, attempts) ==
    LET speedInfo == calculateSpeedMultiplier(rt, obstacleReachTime10(level))
        isFirstTryCorrect == Len(attempts) = 1
        combo == IF isFirstTryCorrect THEN comboCount + 1 ELSE 0
        finalPoints == finalPointsOf(calculateScore(Len(attempts)),
                                     speedInfo.multiplier,
                                     calculateComboMultiplier(combo))
    IN  /\ phase' = "jumping"
        /\ comboCount' = combo
        /\ wordsCompletedCorrectly' = wordsCompletedCorrectly + 1
        /\ tasks' = Spawn(tasks, Task("ca_settle", finalPoints, ""))

\* a slip: the combo survives an incorrect answer
handleIncorrectAnswerKeepsCombo(correctAnswer) ==
    /\ phase' = "crashing"
    /\ tasks' = Spawn(tasks, Task("ia_crash", 0, correctAnswer))
    /\ UNCHANGED <<wordsCompletedCorrectly, comboCount>>

\* handleIncorrectAnswer(correctAnswer) up to its first await
handleIncorrectAnswer(correctAnswer) ==
    /\ phase' = "crashing"
    /\ comboCount' = 0
    /\ tasks' = Spawn(tasks, Task("ia_crash", 0, correctAnswer))
    /\ UNCHANGED wordsCompletedCorrectly

\* Enter in the word input while phase = 'waiting-input': handleWordSubmit.
\* correct stands for userAnswer === correctAnswer.
HandleWordSubmit(correct, rt) ==
    /\ phase = "waiting-input"
    /\ gameVisible /\ ~inputDisabled
    /\ currentWord # NoWord
    /\ rt * 10 < obstacleReachTime10(level)
    /\ correct \/ MissAllowed
    /\ nMisses' = IF correct THEN nMisses ELSE nMisses + 1
    /\ inputDisabled' = TRUE
    /\ answerSubmitted' = TRUE
    /\ responseTime' = rt
    /\ timers' = MarkAnswered(clearObstacleTimeout(timers, obstacleTimeoutId))
    /\ obstacleTimeoutId' = NoTimer
    /\ currentWordAttempts' = Append(currentWordAttempts, correct)
    /\ IF correct
       THEN handleCorrectAnswer(rt, Append(currentWordAttempts, correct))
       ELSE handleIncorrectAnswer(currentWord.text)
    /\ UNCHANGED <<currentWord, score, lives, level, isGameOver, isPlaying,
                   currentProfile, difficulty, currentWordStartTime,
                   startVisible, gameVisible, gameOverVisible, storeVars,
                   wordVars, nServed, nGames, nQuits, callVars, afterQuit, roundAppends,
                   roundUpdates, lastRoundAppends, lastRoundUpdates, answeredAndTimedOut>>

\* the deadline timer id fires: handleTimeout up to its first await when
\* phase = 'waiting-input', nothing otherwise
ObstacleTimeout(tm) ==
    /\ tm \in timers
    /\ IF phase = "waiting-input"
       THEN /\ MissAllowed
            /\ nMisses' = nMisses + 1
            /\ phase' = "crashing"
            /\ timers' = clearObstacleTimeout(timers \ {tm}, obstacleTimeoutId)
            /\ obstacleTimeoutId' = NoTimer
            /\ inputDisabled' = TRUE
            /\ comboCount' = 0
            /\ tasks' = Spawn(tasks, Task("to_crash", 0, ""))
            /\ answeredAndTimedOut' = (answeredAndTimedOut \/ tm.answered)
       ELSE /\ timers' = timers \ {tm}
            /\ UNCHANGED <<phase, obstacleTimeoutId, inputDisabled, comboCount,
                           tasks, answeredAndTimedOut, nMisses>>
    /\ UNCHANGED <<currentWord, currentWordAttempts, score, lives, level,
                   wordsCompletedCorrectly, isGameOver, isPlaying,
                   currentProfile, difficulty, currentWordStartTime,
                   answerSubmitted, responseTime, startVisible, gameVisible,
                   gameOverVisible, storeVars, wordVars, nServed, nGames, nQuits,
                   callVars, afterQuit, roundAppends, roundUpdates, lastRoundAppends,
                   lastRoundUpdates>>

\* this.state.score += finalPoints
addPoints(s, finalPoints) == s + finalPoints

\* handleCorrectAnswer after the jump delay and 'await this.delay(1000)':
\* the points are added to the score
CorrectSettle(t) ==
    /\ BagIn(t, tasks) /\ t.pc = "ca_settle"
    /\ tasks' = Spawn(Finish(tasks, t), [t EXCEPT !.pc = "ca_slide"])
    /\ score' = addPoints(score, t.points)
    /\ currentSession' = updateSessionScore(currentSession, addPoints(score, t.points))
    /\ UNCHANGED <<phase, currentWord, currentWordAttempts, lives, level,
                   wordsCompletedCorrectly, comboCount, isGameOver, isPlaying,
                   currentProfile, difficulty, currentWordStartTime,
                   answerSubmitted, responseTime, obstacleTimeoutId, timers,
                   inputDisabled, startVisible, gameVisible, gameOverVisible,
                   sessions, wordPerformance, wordVars, runVars, roundAppends,
                   roundUpdates, lastRoundAppends, lastRoundUpdates,
                   answeredAndTimedOut>>

\* handleCorrectAnswer after the obstacle slid off: levelUp() up to its await
\* when wordsCompletedCorrectly % 5 === 0, nextRound() otherwise
CorrectSlide(t) ==
    /\ BagIn(t, tasks) /\ t.pc = "ca_slide"
    /\ IF wordsCompletedCorrectly % LevelUpEvery = 0
       THEN /\ level' = level + 1
            /\ phase' = "level-up"
            /\ tasks' = Spawn(Finish(tasks, t), [t EXCEPT !.pc = "ca_levelup"])
            /\ UNCHANGED <<difficulty, currentWord, currentWordAttempts,
                           currentWordStartTime, inputDisabled, nServed,
                           lastRoundAppends, lastRoundUpdates, currentSession,
                           wordPerformance, roundAppends, roundUpdates,
                           sessionWordIndices>>
       ELSE /\ nextRound(isGameOver, Written, level, sessionWordLists,
                         sessionWordIndices, currentProfile, Finish(tasks, t))
            /\ UNCHANGED level
    /\ UNCHANGED <<score, lives, wordsCompletedCorrectly, comboCount, isGameOver,
                   isPlaying, currentProfile, answerSubmitted, responseTime,
                   obstacleTimeoutId, timers, startVisible, gameVisible,
                   gameOverVisible, sessions, sessionWordLists, nGames, nQuits,
                   callVars, afterQuit, nMisses, answeredAndTimedOut>>

\* levelUp after 'await this.delay(2500)', then nextRound()
LevelUpDone(t) ==
    /\ BagIn(t, tasks) /\ t.pc = "ca_levelup"
    /\ nextRound(isGameOver, Written, level, sessionWordLists,
                 sessionWordIndices, currentProfile, Finish(tasks, t))
    /\ UNCHANGED <<score, lives, level, wordsCompletedCorrectly, comboCount,
                   isGameOver, isPlaying, currentProfile, answerSubmitted,
                   responseTime, obstacleTimeoutId, timers, startVisible,
                   gameVisible, gameOverVisible, sessions, sessionWordLists,
                   nGames, nQuits, callVars, afterQuit, nMisses, answeredAndTimedOut>>

\* a slip: the life is taken twice
loseLifeTwice(l) == l - 2

\* this.state.lives -= 1, then updateSessionLives
loseLife(l) == l - 1

\* handleIncorrectAnswer and handleTimeout after the crash delays: the life
\* is lost
CrashDone(t, nextPc) ==
    /\ tasks' = Spawn(Finish(tasks, t), [t EXCEPT !.pc = nextPc])
    /\ lives' = loseLife(lives)
    /\ currentSession' = updateSessionLives(currentSession, loseLife(lives))
    /\ UNCHANGED <<phase, currentWord, currentWordAttempts, score, level,
                   wordsCompletedCorrectly, comboCount, isGameOver, isPlaying,
                   currentProfile, difficulty, currentWordStartTime,
                   answerSubmitted, responseTime, obstacleTimeoutId, timers,
                   inputDisabled, startVisible, gameVisible, gameOverVisible,
                   sessions, wordPerformance, wordVars, runVars, roundAppends,
                   roundUpdates, lastRoundAppends, lastRoundUpdates,
                   answeredAndTimedOut>>

IncorrectCrash(t) ==
    /\ BagIn(t, tasks) /\ t.pc = "ia_crash"
    /\ CrashDone(t, "ia_show")

\* handleIncorrectAnswer after the spelling was shown: game over when no life
\* is left, otherwise the word is spoken again
IncorrectShow(t) ==
    /\ BagIn(t, tasks) /\ t.pc = "ia_show"
    /\ IF lives <= 0
       THEN /\ gameOver(saveWordResult(Written, currentProfile, FALSE, level))
            /\ tasks' = Finish(tasks, t)
            /\ UNCHANGED inputDisabled
       ELSE /\ inputDisabled' = TRUE
            /\ tasks' = Spawn(Finish(tasks, t), [t EXCEPT !.pc = "ia_speak"])
            /\ UNCHANGED <<isGameOver, phase, storeVars, wordVars, roundAppends,
                           roundUpdates, gameVisible, gameOverVisible>>
    /\ UNCHANGED <<currentWord, currentWordAttempts, score, lives, level,
                   wordsCompletedCorrectly, comboCount, isPlaying, currentProfile,
                   difficulty, currentWordStartTime, answerSubmitted,
                   responseTime, obstacleTimeoutId, timers, startVisible, runVars,
                   lastRoundAppends, lastRoundUpdates, answeredAndTimedOut>>

\* handleIncorrectAnswer after 'await this.speakWord(correctAnswer)': the
\* deadline is armed again for the same word
IncorrectRetry(t, resolved) ==
    /\ BagIn(t, tasks) /\ t.pc = "ia_speak"
    /\ tasks' = Finish(tasks, t)
    /\ narrationFailed' = ~resolved
    /\ IF speakWord(resolved)
       THEN /\ ArmTimer(level)
            /\ phase' = "waiting-input"
            /\ inputDisabled' = FALSE
       ELSE UNCHANGED <<phase, inputDisabled, timers, obstacleTimeoutId>>
    /\ UNCHANGED <<currentWord, currentWordAttempts, score, lives, level,
                   wordsCompletedCorrectly, comboCount, isGameOver, isPlaying,
                   currentProfile, difficulty, currentWordStartTime,
                   answerSubmitted, responseTime, startVisible, gameVisible,
                   gameOverVisible, storeVars, wordVars, nServed, nGames, nQuits,
                   nStoreOps, lastStoreCall, lastGameCall, lastWordCall, storageOk, afterQuit,
                   nMisses, roundAppends, roundUpdates, lastRoundAppends,
                   lastRoundUpdates, answeredAndTimedOut>>

TimeoutCrash(t) ==
    /\ BagIn(t, tasks) /\ t.pc = "to_crash"
    /\ CrashDone(t, "to_show")

\* handleTimeout after the spelling was shown: the result is saved with the
\* timeout flag, then game over or nextRound()
TimeoutShow(t) ==
    /\ BagIn(t, tasks) /\ t.pc = "to_show"
    /\ LET w == saveWordResult(Written, currentProfile, TRUE, level)
       IN  IF lives <= 0
           THEN /\ gameOver(w)
                /\ tasks' = Finish(tasks, t)
                /\ UNCHANGED <<difficulty, currentWord, currentWordAttempts,
                               currentWordStartTime, inputDisabled, nServed,
                               lastRoundAppends, lastRoundUpdates>>
           ELSE /\ nextRound(isGameOver, w, level, sessionWordLists,
                             sessionWordIndices, currentProfile, Finish(tasks, t))
                /\ UNCHANGED <<isGameOver, sessions, sessionWordLists,
                               gameVisible, gameOverVisible>>
    /\ UNCHANGED <<score, lives, level, wordsCompletedCorrectly, comboCount,
                   isPlaying, currentProfile, answerSubmitted, responseTime,
                   obstacleTimeoutId, timers, startVisible, nGames, nQuits,
                   callVars, afterQuit, nMisses, answeredAndTimedOut>>

\* click on the quit button, confirmed: quitGame
QuitGame ==
    /\ gameVisible
    /\ nQuits < MaxQuits /\ nServed <= MaxQuitRounds
    /\ nQuits' = nQuits + 1
    /\ afterQuit' = TRUE
    /\ timers' = clearObstacleTimeout(timers, obstacleTimeoutId)
    /\ obstacleTimeoutId' = NoTimer
    /\ LET w == IF currentWord # NoWord /\ currentWordStartTime > 0
                THEN saveWordResult(Written, currentProfile, FALSE, level)
                ELSE Written
       IN  /\ wordPerformance' = w.perf
           /\ roundAppends' = w.app /\ roundUpdates' = w.upd
           /\ IF w.threw \/ (w.session.open /\ storeMethodThrows(storageOk))
              THEN \* quitGame ended with an error of the store
                   /\ currentSession' = w.session
                   /\ sessions' = IF w.threw THEN sessions
                                  ELSE endSessionSaved(w.session, sessions)
                   /\ UNCHANGED <<isGameOver, isPlaying, gameVisible,
                                  startVisible, phase, wordVars>>
              ELSE /\ sessions' = endSessionSaved(w.session, sessions)
                   /\ currentSession' = NoSession
                   /\ isGameOver' = FALSE /\ isPlaying' = FALSE
                   /\ gameVisible' = FALSE /\ startVisible' = TRUE
                   /\ phase' = "idle"
                   /\ sessionWordLists' = EmptyMap
                   /\ sessionWordIndices' = EmptyMap
    /\ UNCHANGED <<currentWord, currentWordAttempts, score, lives, level,
                   wordsCompletedCorrectly, comboCount, currentProfile,
                   difficulty, currentWordStartTime, answerSubmitted,
                   responseTime, tasks, inputDisabled, gameOverVisible, nServed,
                   nGames, callVars, nMisses, lastRoundAppends, lastRoundUpdates,
                   answeredAndTimedOut>>

\* click on the play-again button of the game-over screen: resetGame
ResetGame ==
    /\ gameOverVisible
    /\ gameOverVisible' = FALSE /\ startVisible' = TRUE
    /\ phase' = "idle"
    /\ sessionWordLists' = EmptyMap /\ sessionWordIndices' = EmptyMap
    /\ UNCHANGED <<currentWord, currentWordAttempts, score, lives, level,
                   wordsCompletedCorrectly, comboCount, isGameOver, isPlaying,
                   currentProfile, difficulty, currentWordStartTime,
                   answerSubmitted, responseTime, obstacleTimeoutId, timers,
                   tasks, inputDisabled, gameVisible, storeVars, runVars,
                   roundAppends, roundUpdates, lastRoundAppends,
                   lastRoundUpdates, answeredAndTimedOut>>

\* the steps of a run in which the quit button is never used
NextPlay ==
    \/ \E p \in Profiles :
          \E lists \in SessionWordLists(getWordPerformance(wordPerformance, p)) :
             StartGame(p, lists)
    \/ \E t \in BagToSet(tasks) : NextRoundArm(t, TRUE)
    \/ \E correct \in BOOLEAN, rt \in ResponseTimes : HandleWordSubmit(correct, rt)
    \/ \E tm \in timers : ObstacleTimeout(tm)
    \/ \E t \in BagToSet(tasks) : CorrectSettle(t)
    \/ \E t \in BagToSet(tasks) : CorrectSlide(t)
    \/ \E t \in BagToSet(tasks) : LevelUpDone(t)
    \/ \E t \in BagToSet(tasks) : IncorrectCrash(t)
    \/ \E t \in BagToSet(tasks) : IncorrectShow(t)
    \/ \E t \in BagToSet(tasks) : IncorrectRetry(t, TRUE)
    \/ \E t \in BagToSet(tasks) : TimeoutCrash(t)
    \/ \E t \in BagToSet(tasks) : TimeoutShow(t)
    \/ ResetGame

Next ==
    \/ NextPlay
    \/ QuitGame

Spec == Init /\ [][Next]_vars
SpecPlay == Init /\ [][NextPlay]_vars

\* the steps of a run without quit in which a narration may be rejected
NextSpeech ==
    \/ NextPlay
    \/ \E t \in BagToSet(tasks) : NextRoundArm(t, FALSE)
    \/ \E t \in BagToSet(tasks) : IncorrectRetry(t, FALSE)

SpecSpeech == Init /\ [][NextSpeech]_vars

\* localStorage starts to reject writes (quota exceeded), or accepts them
\* again
StorageChange ==
    /\ nServed <= MaxFailRounds
    /\ UNCHANGED <<gameVars, browserVars, storeVars, wordVars, histVars,
                   nServed, nGames, nQuits, nStoreOps, nMisses, lastStoreCall, lastGameCall,
                   lastWordCall, narrationFailed, afterQuit>>

StorageFails == storageOk /\ storageOk' = FALSE /\ StorageChange
StorageRecovers == ~storageOk /\ storageOk' = TRUE /\ StorageChange

\* the steps of a run without quit in which storage writes may fail
NextStorage ==
    \/ NextPlay
    \/ StorageFails
    \/ StorageRecovers

SpecStorage == Init /\ [][NextStorage]_vars

\* ------------------------------------------------- the store called directly
\* SessionManager is exported: its store methods are called with any
\* WordResult, as the tests of sessionManager.test.ts do.  storageOk = FALSE
\* is localStorage throwing (quota, privacy mode): the method catches, logs
\* and leaves the store as it was.
StoreWords == {"cat", "Cat", "dog"}
AttemptLists == {<<>>} \cup {<<a>> : a \in BOOLEAN}
                  \cup {<<a, b>> : a \in BOOLEAN, b \in BOOLEAN}
StoreResults ==
    [word : StoreWords, attempts : AttemptLists, timedOut : BOOLEAN]
StoreCall(op, playerName, wordResult, writeOk) ==
    [op |-> op, player |-> playerName, result |-> wordResult, ok |-> writeOk]
NoResult == [word |-> "", attempts |-> <<>>, timedOut |-> FALSE]

StoreStep(call, after) ==
    /\ nStoreOps < MaxStoreOps
    /\ nStoreOps' = nStoreOps + 1
    /\ lastStoreCall' = call
    /\ wordPerformance' = IF call.ok THEN after ELSE wordPerformance
    /\ UNCHANGED <<gameVars, browserVars, currentSession, sessions, wordVars,
                   nServed, nGames, nQuits, nMisses, afterQuit, histVars,
                   lastWordCall, lastGameCall, narrationFailed, storageOk>>

UpdateWordPerformance(playerName, wordResult, writeOk) ==
    StoreStep(StoreCall("update", playerName, wordResult, writeOk),
              updateWordPerformance(wordPerformance, playerName, wordResult))

ClearWordPerformance(playerName, writeOk) ==
    StoreStep(StoreCall("clear", playerName, NoResult, writeOk),
              clearWordPerformance(wordPerformance, playerName))

ClearAllWordPerformance ==
    StoreStep(StoreCall("clearAll", NoProfile, NoResult, TRUE),
              clearAllWordPerformance(wordPerformance))

NextStore ==
    \/ \E p \in StorePlayers, r \in StoreResults, ok \in BOOLEAN :
            UpdateWordPerformance(p, r, ok)
    \/ \E p \in StorePlayers, ok \in BOOLEAN : ClearWordPerformance(p, ok)
    \/ ClearAllWordPerformance

SpecStore == Init /\ [][NextStore]_vars

\* ------------------------------------------------- WordManager on its own
\* the word lists a WordManager is configured with; the second one has no
\* hard words
WordConfigs ==
    {Words,
     [easy |-> <<"cat", "dog", "sun">>, medium |-> <<"house">>, hard |-> <<>>]}

\* a direct call: its number, the calls of getNextWord that returned a word
\* since initializeSessionWords, per difficulty, and whether resetSession has
\* run since
WordCall(op, d, got, served, afterReset) ==
    [op |-> op, n |-> lastWordCall.n + 1, d |-> d, ok |-> got.ok,
     word |-> got.word, served |-> served, afterReset |-> afterReset]
NoGot == [ok |-> TRUE, word |-> NoWord]

WordStep ==
    /\ lastWordCall.n < MaxWordOps
    /\ UNCHANGED <<gameVars, browserVars, storeVars, nServed, nGames, nQuits,
                   nStoreOps, nMisses, lastStoreCall, lastGameCall, afterQuit, histVars,
                   narrationFailed, storageOk>>

InitializeSessionWords(words, lists) ==
    /\ WordStep
    /\ lists \in SessionWordListsOf(words, getWordPerformance(wordPerformance, NoProfile))
    /\ sessionWordLists' = lists
    /\ sessionWordIndices' = ZeroIndices
    /\ lastWordCall' = WordCall("initializeSessionWords", "", NoGot, ZeroIndices, FALSE)

GetNextWord(d) ==
    /\ WordStep
    /\ LET got == getNextWord(sessionWordLists, sessionWordIndices, d)
           served == IF lastWordCall.op = "none" THEN ZeroIndices
                     ELSE lastWordCall.served
       IN  /\ sessionWordIndices' = got.indices
           /\ lastWordCall' =
                 WordCall("getNextWord", d, got,
                          IF got.ok THEN [served EXCEPT ![d] = @ + 1] ELSE served,
                          lastWordCall.op # "none" /\ lastWordCall.afterReset)
    /\ UNCHANGED sessionWordLists

ResetSession ==
    /\ WordStep
    /\ sessionWordLists' = EmptyMap /\ sessionWordIndices' = EmptyMap
    /\ lastWordCall' = WordCall("resetSession", "", NoGot, ZeroIndices, TRUE)

NextWords ==
    \/ \E words \in WordConfigs :
          \E lists \in SessionWordListsOf(words, EmptyMap) :
             InitializeSessionWords(words, lists)
    \/ \E d \in Difficulties : GetNextWord(d)
    \/ ResetSession

SpecWords == Init /\ [][NextWords]_vars

\* the words and the records calculatePriorityScore is called with: a map
\* is empty or holds one record, filed under "cat"
PriorityWords == {"cat", "Cat", "dog"}
PriorityRecords ==
    [word : {"cat"}, timesCorrectFirstTry : 0..MaxCount,
     timesMistakes : 0..MaxCount, timesTimeout : 0..MaxCount,
     totalAttempts : 0..MaxCount, lastSeen : 0..Now]
\* records of a word that has only ever timed out, up to MaxTimeouts times
TimeoutRecords ==
    {[word |-> "cat", timesCorrectFirstTry |-> 0, timesMistakes |-> 0,
      timesTimeout |-> k, totalAttempts |-> k, lastSeen |-> seen] :
        k \in 0..MaxTimeouts, seen \in 0..Now}
PriorityMaps ==
    {EmptyMap} \cup {[w \in {"cat"} |-> rec] :
                        rec \in PriorityRecords \cup TimeoutRecords}

CalculatePriorityScore(word, performanceMap) ==
    /\ lastWordCall' =
          [op |-> "calculatePriorityScore", n |-> 1, word |-> word,
           map |-> performanceMap,
           score |-> calculatePriorityScore(word, performanceMap)]
    /\ UNCHANGED <<gameVars, browserVars, storeVars, wordVars, histVars,
                   nServed, nGames, nQuits, nStoreOps, nMisses, lastStoreCall, lastGameCall,
                   narrationFailed, storageOk, afterQuit>>

\* one call per run, on any of the inputs
NextPriority ==
    /\ lastWordCall.op = "none"
    /\ \E word \in PriorityWords, performanceMap \in PriorityMaps :
          CalculatePriorityScore(word, performanceMap)

SpecPriority == Init /\ [][NextPriority]_vars

\* -------------------------------------------- parseWordEntry on its own
\* the entries parseWordEntry is called with: every string of at most
\* MaxEntryLen characters out of a letter, the blank and the three dashes
EntryAlphabet == {"a", " ", "-", "en", "em"}
ParseEntries == UNION {[1..n -> EntryAlphabet] : n \in 0..MaxEntryLen}

ParseWordEntry(entry) ==
    /\ lastWordCall' = [op |-> "parseWordEntry", n |-> 1, entry |-> entry,
                        result |-> parseWordEntry(entry)]
    /\ UNCHANGED <<gameVars, browserVars, storeVars, wordVars, histVars,
                   nServed, nGames, nQuits, nStoreOps, nMisses, lastStoreCall,
                   lastGameCall, narrationFailed, storageOk, afterQuit>>

\* one call per run, on any of the entries
NextParse ==
    /\ lastWordCall.op = "none"
    /\ \E entry \in ParseEntries : ParseWordEntry(entry)

SpecParse == Init /\ [][NextParse]_vars

\* ------------------------------------------------ validation on its own
\* String.prototype.toLowerCase on a sequence of characters
LowerOf(char) == CASE char = "A" -> "a" [] char = "B" -> "b" [] OTHER -> char
toLowerCaseChars(str) == [i \in 1..Len(str) |-> LowerOf(str[i])]

\* handleWordSubmit: userAnswer of the value of the word input, correctAnswer
\* of the text of the current word
userAnswer(value) == toLowerCaseChars(trim(value))
correctAnswer(text) == toLowerCaseChars(text)

\* the entries of the word list the current word is parsed from, and the
\* values of the word input: every string of at most MaxInputLen characters
ValidateEntries ==
    {<<"a", "b">>, <<"A", "b">>, <<" ", "a">>, <<"a", " ">>,
     <<"a", " ", "-", " ", "b">>, <<" ", "-", " ", "a">>}
InputAlphabet == {"a", "A", "b", " ", "-"}
InputValues == UNION {[1..n -> InputAlphabet] : n \in 0..MaxInputLen}

\* the comparison of handleWordSubmit for the word getNextWord returns for
\* entry and the value of the word input
ValidateAnswer(entry, value) ==
    /\ lastGameCall' =
          [op |-> "handleWordSubmit", text |-> parseWordEntry(entry).text,
           value |-> value,
           correct |-> userAnswer(value)
                          = correctAnswer(parseWordEntry(entry).text)]
    /\ UNCHANGED <<gameVars, browserVars, storeVars, wordVars, histVars,
                   nServed, nGames, nQuits, nStoreOps, nMisses, lastStoreCall,
                   lastWordCall, narrationFailed, storageOk, afterQuit>>

\* one answer per run
NextValidate ==
    /\ lastGameCall.op = "none"
    /\ \E entry \in ValidateEntries, value \in InputValues :
          ValidateAnswer(entry, value)

SpecValidate == Init /\ [][NextValidate]_vars

\* ------------------------------------------------ the speed tier on its own
\* the times calculateSpeedMultiplier is called with, in ms: totals of the
\* first and the last level and of the examples of scoring.test.ts, response
\* times on a grid of 50 ms and 1 ms to either side of it
TierTotals == {1500, 4800, 5000, 10000}
TierResponses ==
    {rt \in {50 * k + e : k \in 0..MaxTierSteps, e \in {-1, 0, 1}} : rt >= 0}

CalculateSpeedMultiplier(rt, totalTime) ==
    /\ lastGameCall' =
          [op |-> "calculateSpeedMultiplier", responseTime |-> rt,
           totalTime |-> totalTime,
           result |-> calculateSpeedMultiplier(rt, totalTime * 10)]
    /\ UNCHANGED <<gameVars, browserVars, storeVars, wordVars, histVars,
                   nServed, nGames, nQuits, nStoreOps, nMisses, lastStoreCall,
                   lastWordCall, narrationFailed, storageOk, afterQuit>>

\* one call per run, on any of the inputs
NextTier ==
    /\ lastGameCall.op = "none"
    /\ \E rt \in TierResponses, totalTime \in TierTotals :
          CalculateSpeedMultiplier(rt, totalTime)

SpecTier == Init /\ [][NextTier]_vars

\* ----------------------------------------------- the session order on its own
\* a word list with more than one bucket of easy words
OrderWords ==
    [easy |-> <<"cat", "dog", "sun - a star", "hat", "pen", "cup", "bed", "box", "fox",
                "map", "jar">>,
     medium |-> <<"house">>, hard |-> <<"rhythm">>]

\* the word lists of the order specification: the long one, and the five
\* easy words of words.test.ts
OrderConfigs ==
    {OrderWords,
     [easy |-> <<"cat", "dog", "sun", "bed", "car">>,
      medium |-> <<"house">>, hard |-> <<"rhythm">>]}

\* a record last seen now, with each attempt in one of the three counters
OrderRecord(word, firstTry, mistakes, timeouts) ==
    [word |-> word, timesCorrectFirstTry |-> firstTry,
     timesMistakes |-> mistakes, timesTimeout |-> timeouts,
     totalAttempts |-> firstTry + mistakes + timeouts, lastSeen |-> Now]

\* the performance maps initializeSessionWords is called with
OrderMaps ==
    LET cat == OrderRecord("cat", 0, 0, 1)
        dog == OrderRecord("dog", MaxCount, 0, 0)
        sun == OrderRecord("sun", 1, 1, 0)
        jar == OrderRecord("jar", 0, 0, MaxTimeouts)
        records == {cat, dog, sun, jar}
    IN  {[w \in {rec.word : rec \in seen} |->
            CHOOSE rec \in seen : rec.word = w] :
                seen \in {{}, {cat}, {dog}, {cat, dog}, {dog, sun}, {jar},
                          {cat, jar}, {cat, dog, sun, jar}}}

InitializeSessionWordsWith(performanceMap, lists) ==
    /\ sessionWordLists' = lists
    /\ sessionWordIndices' = ZeroIndices
    /\ lastWordCall' = [op |-> "initializeSessionWords", n |-> 1,
                        map |-> performanceMap]
    /\ UNCHANGED <<gameVars, browserVars, storeVars, histVars,
                   nServed, nGames, nQuits, nStoreOps, nMisses, lastStoreCall, lastGameCall,
                   narrationFailed, storageOk, afterQuit>>

\* one call per run, on any of the maps, with any outcome of the shuffles
NextOrder ==
    /\ lastWordCall.op = "none"
    /\ \E words \in OrderConfigs, performanceMap \in OrderMaps :
          \E lists \in SessionWordListsOf(words, performanceMap) :
             InitializeSessionWordsWith(performanceMap, lists)

SpecOrder == Init /\ [][NextOrder]_vars

\* ----------------------------------------------------------------- claims
IncorrectPcs == {"ia_crash", "ia_show", "ia_speak"}
TimeoutPcs == {"to_crash", "to_show"}
InFlight(pcs) == \E t \in BagToSet(tasks) : t.pc \in pcs

\* C1: every round (a word served by nextRound until it is resolved) results
\* in exactly one RoundResult appended to the session ledger and exactly one
\* updateWordPerformance call: never more than one while the word is
\* current, and exactly one of each by the time the next word is served.
C1_OneResultPerRound ==
    /\ roundAppends <= 1 /\ roundUpdates <= 1
    /\ nServed >= 2 => lastRoundAppends = 1 /\ lastRoundUpdates = 1

\* C6: lives is always in 0..3; startGame sets it to 3; every other change
\* of lives lowers it by exactly 1, and never below 0.
C6_LivesRange ==
    [][/\ lives' \in 0..MaxLives
       /\ nGames' # nGames => lives' = MaxLives
       /\ (nGames' = nGames /\ lives' # lives) => lives' = lives - 1]_vars

\* C10: after quitGame every pending suspension is cancelled: until the next
\* startGame no step changes phase, lives, score, level or combo, serves a
\* word, arms a timer or writes the session store or the performance store.
C10_QuitCancelsSuspensions ==
    [][(afterQuit /\ afterQuit') =>
          UNCHANGED <<phase, lives, score, level, comboCount, currentWord,
                      nServed, timers, currentSession, sessions,
                      wordPerformance>>]_vars

\* C4: after an incorrect answer with lives left the machine re-enters
\* waiting-input with the same currentWord, a newly armed deadline and the
\* attempts kept: while handleIncorrectAnswer is in flight no word is served
\* and the cursor stays, and its last step finds the word it was answered
\* for, keeps the failed attempt and leaves exactly the new timer pending.
C4_RetrySameWord ==
    [][/\ (InFlight(IncorrectPcs) /\ nGames' = nGames /\ nQuits' = nQuits) =>
             /\ nServed' = nServed
             /\ currentWord' = currentWord
             /\ sessionWordIndices' # sessionWordIndices => phase' = "game-over"
       /\ \A t \in BagToSet(tasks) : IncorrectRetry(t, TRUE) =>
             /\ lives > 0
             /\ currentWord.text = t.answer
             /\ phase' = "waiting-input"
             /\ Len(currentWordAttempts') >= 1
             /\ ~currentWordAttempts'[Len(currentWordAttempts')]
             /\ obstacleTimeoutId' # NoTimer
             /\ \E tm \in timers' :
                   timers' = {tm} /\ tm.id = obstacleTimeoutId' /\ ~tm.answered]_vars

\* the cursor of difficulty d advanced by one, the list taken as a cycle, and
\* the entry it passes
CursorAfter(d) ==
    (sessionWordIndices[d] % Len(sessionWordLists[d])) + 1
EntryAfterCursor(d) ==
    [text |-> sessionWordLists[d][CursorAfter(d)], difficulty |-> d]

\* C5: a deadline expiry costs exactly one life and never retries the word:
\* while handleTimeout is in flight lives changes only by its own -1 and no
\* retry re-presents the word; its last step serves the next entry of the
\* list (cursor + 1) when lives remain and enters game-over when none does.
C5_TimeoutNoRetry ==
    [][/\ (InFlight(TimeoutPcs) /\ nGames' = nGames) =>
             /\ \A t \in BagToSet(tasks) : ~IncorrectRetry(t, TRUE)
             /\ lives' # lives =>
                   \E t \in BagToSet(tasks) : TimeoutCrash(t) /\ lives' = lives - 1
       /\ \A t \in BagToSet(tasks) : TimeoutShow(t) =>
             IF lives <= 0
             THEN phase' = "game-over" /\ nServed' = nServed
             ELSE /\ phase' = "speaking"
                  /\ nServed' = nServed + 1
                  /\ currentWordAttempts' = <<>>
                  /\ currentWord' = EntryAfterCursor(difficulty)
                  /\ sessionWordIndices'[difficulty] = CursorAfter(difficulty)]_vars

\* C7: game-over is entered only when lives = 0; with lives at 0 the session
\* is in its last crash, in game-over or back at the start screen; in
\* game-over no word is served, no timer armed and no attempt accepted until
\* startGame.
C7_GameOverAtZeroLives ==
    [][/\ (phase' = "game-over" /\ phase # "game-over") => lives' = 0
       /\ lives' <= 0 => phase' \in {"crashing", "game-over", "idle"}
       /\ (phase = "game-over" /\ nGames' = nGames) =>
             /\ nServed' = nServed
             /\ timers' \subseteq timers
             /\ currentWordAttempts' = currentWordAttempts]_vars

\* C9: an attempt is appended only while phase = waiting-input, and at most
\* one per entry into it; the word input is disabled in every state whose
\* phase is not waiting-input.
C9_AttemptOnlyWhileWaiting ==
    [][/\ (currentWordAttempts' # currentWordAttempts
             /\ currentWordAttempts' # <<>>) =>
             /\ phase = "waiting-input"
             /\ currentWordAttempts' = Append(currentWordAttempts,
                   currentWordAttempts'[Len(currentWordAttempts')])
             /\ phase' # "waiting-input"
       /\ phase' # "waiting-input" => inputDisabled']_vars

\* C8: once an answer is submitted in waiting-input, the deadline timer
\* armed for that entry never runs handleTimeout.
C8_AnsweredTimerNeverFires == ~answeredAndTimedOut

\* a deadline expired for a word that already has a submitted attempt: the
\* submit cancelled the first timer, the retry armed the one that expired
C8_Witness ==
    /\ InFlight({"to_crash"})
    /\ Len(currentWordAttempts) >= 1
    /\ timers = {}

Buckets == {"timesCorrectFirstTry", "timesMistakes", "timesTimeout"}
StoredRecordsOf(all) ==
    UNION {{all[p][w] : w \in DOMAIN all[p]} : p \in DOMAIN all}

\* C2: after any sequence of updateWordPerformance and clearWordPerformance
\* calls from an empty store, every stored record of every player has
\* totalAttempts = timesCorrectFirstTry + timesMistakes + timesTimeout.
C2_TotalIsSumOfBuckets ==
    \A rec \in StoredRecordsOf(wordPerformance) :
        rec.totalAttempts =
            rec.timesCorrectFirstTry + rec.timesMistakes + rec.timesTimeout

\* a record that has counted one result in each bucket
C2_Witness ==
    \E rec \in StoredRecordsOf(wordPerformance) :
        /\ rec.timesCorrectFirstTry = 1
        /\ rec.timesMistakes = 1
        /\ rec.timesTimeout = 1

\* the step is a call of updateWordPerformance; lastStoreCall' holds its
\* arguments
IsUpdateCall ==
    /\ nStoreOps' = nStoreOps + 1
    /\ lastStoreCall'.op = "update"

\* the step adds 1 to totalAttempts and to bucket of the record of the word,
\* created with all counters 0 if absent, and to no other bucket
CountedIn(playerName, wordResult, bucket) ==
    LET word == toLowerCase(wordResult.word)
        known == /\ playerName \in DOMAIN wordPerformance
                 /\ word \in DOMAIN wordPerformance[playerName]
        before == IF known THEN wordPerformance[playerName][word]
                  ELSE [k \in Buckets \cup {"totalAttempts"} |-> 0]
    IN  /\ playerName \in DOMAIN wordPerformance'
        /\ word \in DOMAIN wordPerformance'[playerName]
        /\ LET after == wordPerformance'[playerName][word]
           IN  /\ after.totalAttempts = before.totalAttempts + 1
               /\ \A k \in Buckets :
                     after[k] = before[k] + (IF k = bucket THEN 1 ELSE 0)

IsQuitDuringRound ==
    /\ nQuits' = nQuits + 1
    /\ currentWord # NoWord /\ currentWordStartTime > 0

\* C11: quitGame during a round appends that round's result to the ledger
\* and counts it in the player's performance record before the session is
\* ended and persisted: the persisted session is the open session with the
\* result of the word in flight added to its roundsPlayed.
C11_QuitSavesRoundFirst ==
    [][IsQuitDuringRound =>
          /\ Len(sessions') = Len(sessions) + 1
          /\ currentSession' = NoSession
          /\ LET persisted == sessions'[Len(sessions')]
                 n == Len(currentSession.wordsPlayed)
                 word == toLowerCase(currentWord.text)
                 before == getWordPerformance(wordPerformance, currentProfile)
                 after == getWordPerformance(wordPerformance', currentProfile)
             IN  /\ persisted.email = currentSession.email
                 /\ Len(persisted.wordsPlayed) = n + 1
                 /\ SubSeq(persisted.wordsPlayed, 1, n) = currentSession.wordsPlayed
                 /\ persisted.wordsPlayed[n + 1].word = currentWord.text
                 /\ persisted.wordsPlayed[n + 1].attempts = currentWordAttempts
                 /\ ~persisted.wordsPlayed[n + 1].timedOut
                 /\ word \in DOMAIN after
                 /\ after[word].totalAttempts =
                       (IF word \in DOMAIN before
                        THEN before[word].totalAttempts ELSE 0) + 1]_vars

\* a quit in the second round of a game: the persisted session holds the
\* first round and the round that was in flight
C11_Witness ==
    /\ afterQuit /\ currentSession = NoSession
    /\ Len(sessions) = 1
    /\ Len(sessions[1].wordsPlayed) = 2
    /\ sessions[1].wordsPlayed[2].word = currentWord.text
    /\ sessions[1].wordsPlayed[2].attempts = currentWordAttempts

\* the step records an attempt of the player
IsSubmitStep ==
    \E correct \in BOOLEAN :
        currentWordAttempts' = Append(currentWordAttempts, correct)

\* the step is the deadline expiring in waiting-input
IsTimeoutStep ==
    /\ phase = "waiting-input" /\ phase' = "crashing"
    /\ currentWordAttempts' = currentWordAttempts

\* C12: comboCount changes only at round events. A correct answer that is
\* the first attempt of its word adds 1; a correct answer after earlier
\* attempts, an incorrect answer and a timeout set it to 0, the last two in
\* the step in which phase becomes crashing; no other step changes it.
C12_ComboOnlyAtRoundEvents ==
    [][IF IsSubmitStep
       THEN LET n == Len(currentWordAttempts')
            IN  IF currentWordAttempts'[n]
                THEN comboCount' = (IF n = 1 THEN comboCount + 1 ELSE 0)
                ELSE comboCount' = 0 /\ phase' = "crashing"
       ELSE IF IsTimeoutStep
            THEN comboCount' = 0
            ELSE comboCount' = comboCount]_vars

\* a combo of two first-attempt answers built after a miss had reset it
C12_Witness ==
    /\ InFlight({"ca_settle"})
    /\ comboCount = 2 /\ nMisses >= 1
    /\ currentWordAttempts = <<TRUE>>

\* C13: level rises by exactly 1 each time wordsCompletedCorrectly reaches a
\* positive multiple of 5, in a level-up phase entered after the jump and
\* before the next word is served, and never otherwise; at every entry into
\* waiting-input, level = 1 + floor(wordsCompletedCorrectly / 5).
C13_LevelFollowsCompletedWords ==
    [][/\ level' > level =>
             /\ level' = level + 1
             /\ phase = "jumping" /\ phase' = "level-up"
             /\ wordsCompletedCorrectly > 0
             /\ wordsCompletedCorrectly % LevelUpEvery = 0
             /\ nServed' = nServed
       /\ (phase # "waiting-input" /\ phase' = "waiting-input") =>
             level' = 1 + (wordsCompletedCorrectly' \div LevelUpEvery)]_vars

\* the fifth word of a game was completed and the sixth is awaited at level 2
C13_Witness ==
    /\ phase = "waiting-input"
    /\ wordsCompletedCorrectly = LevelUpEvery
    /\ level = 2

\* 0.6 * max(2500, 8000 - 400 * (lvl - 1)), in ms
ClaimedDeadline(lvl) ==
    LET speed == IF 8000 - 400 * (lvl - 1) > 2500
                 THEN 8000 - 400 * (lvl - 1) ELSE 2500
    IN  (6 * speed) \div 10

ClaimedTier(lvl) ==
    CASE lvl <= 3 -> "easy"
      [] lvl >= 4 /\ lvl <= 6 -> "medium"
      [] lvl >= 7 -> "hard"

\* C15: every word served by nextRound is the entry under the cursor of the
\* session order of the tier for the current level: easy up to level 3,
\* medium for levels 4 to 6, hard from level 7.
C15_WordFromTierOfLevel ==
    [][nServed' = nServed + 1 =>
          LET d == ClaimedTier(level')
          IN  /\ d \in DOMAIN sessionWordLists'
              /\ sessionWordIndices'[d] \in 1..Len(sessionWordLists'[d])
              /\ currentWord'.text =
                    sessionWordLists'[d][sessionWordIndices'[d]]
              /\ currentWord'.difficulty = d
              /\ \E i \in 1..Len(Words[d]) : currentWord'.text = Words[d][i]]_vars

\* the first word of level 7 is narrated: it is a hard one
C15_Witness ==
    /\ phase = "speaking" /\ level = 7
    /\ currentWord.difficulty = "hard"
    /\ \E i \in 1..Len(Words.hard) : currentWord.text = Words.hard[i]

\* the step is a direct call of getNextWord; lastWordCall' holds its
\* argument and its result
IsGetNextWordCall ==
    /\ lastWordCall'.n = lastWordCall.n + 1
    /\ lastWordCall'.op = "getNextWord"

\* C16: for a session order of n >= 1 entries, the k-th call of getNextWord
\* for that difficulty since initializeSessionWords returns the entry at
\* position (k - 1) mod n of the order (positions from 0), so every n calls
\* serve every entry once and call k + n returns what call k returned; the
\* order is not reshuffled between cycles.
C16_RoundRobinOverSessionOrder ==
    [][(IsGetNextWordCall
          /\ lastWordCall'.d \in DOMAIN sessionWordLists
          /\ Len(sessionWordLists[lastWordCall'.d]) >= 1) =>
          LET d == lastWordCall'.d
              order == sessionWordLists[d]
              k == lastWordCall'.served[d]
          IN  /\ lastWordCall'.ok
              /\ lastWordCall'.word.text = order[((k - 1) % Len(order)) + 1]
              /\ sessionWordLists' = sessionWordLists]_vars

\* the fourth call on an order of three entries returned the first entry
\* again
C16_Witness ==
    /\ lastWordCall.op = "getNextWord" /\ lastWordCall.ok
    /\ Len(sessionWordLists[lastWordCall.d]) = 3
    /\ lastWordCall.served[lastWordCall.d] = 4
    /\ lastWordCall.word.text = sessionWordLists[lastWordCall.d][1]

\* C17: getNextWord fails with an error, returns no word and leaves the
\* lists and the cursors as they were when the order of the requested
\* difficulty is empty, and when it is called after resetSession before a
\* new initializeSessionWords.
C17_NoWordsIsAnError ==
    [][(IsGetNextWordCall
          /\ (\/ lastWordCall'.d \notin DOMAIN sessionWordLists
              \/ sessionWordLists[lastWordCall'.d] = <<>>)) =>
          /\ ~lastWordCall'.ok
          /\ lastWordCall'.word = NoWord
          /\ sessionWordLists' = sessionWordLists
          /\ sessionWordIndices' = sessionWordIndices]_vars

\* a call after resetSession, with no initializeSessionWords in between,
\* has failed
C17_Witness ==
    /\ lastWordCall.op = "getNextWord"
    /\ lastWordCall.afterReset
    /\ ~lastWordCall.ok
    /\ sessionWordLists = EmptyMap

\* the deadline is armed: the current timer is pending with the delay of
\* the level
DeadlineArmed ==
    \E tm \in timers' :
        /\ tm.id = obstacleTimeoutId'
        /\ tm.delay = obstacleReachTime(level')
        /\ ~tm.answered

\* C18: when the narration of a word is rejected, the round still proceeds:
\* nextRound and the retry path of handleIncorrectAnswer enter waiting-input,
\* enable the input and arm the deadline timer as after a narration that
\* ended normally, and lives, score and comboCount are left as they were.
C18_RoundProceedsWithoutNarration ==
    [][\A t \in BagToSet(tasks) :
          (NextRoundArm(t, FALSE) \/ IncorrectRetry(t, FALSE)) =>
             /\ phase' = "waiting-input"
             /\ ~inputDisabled'
             /\ DeadlineArmed
             /\ lives' = lives /\ score' = score /\ comboCount' = comboCount
             /\ currentWord' = currentWord]_vars

\* the narration of a retry was rejected and the word is awaited again
C18_Witness ==
    /\ narrationFailed
    /\ phase = "waiting-input"
    /\ currentWordAttempts = <<FALSE>>
    /\ \E tm \in timers : tm.id = obstacleTimeoutId

\* the result of the word in flight is the last entry of the ledger of the
\* open session, and the next word is being narrated
SavedAndServed ==
    /\ phase' = "speaking"
    /\ nServed' = nServed + 1
    /\ currentSession.open =>
          /\ currentSession'.open
          /\ Len(currentSession'.wordsPlayed) > Len(currentSession.wordsPlayed)
          /\ currentSession'.wordsPlayed[Len(currentSession'.wordsPlayed)].word
                = currentWord.text

\* the game is over: the game-over screen is shown and no session is open
GameEnded ==
    /\ phase' = "game-over" /\ isGameOver'
    /\ gameOverVisible' /\ ~gameVisible'
    /\ currentSession' = NoSession

\* C19: when a write of localStorage fails in updateWordPerformance or in
\* saveSession, no error reaches the round state machine: the handler that
\* saved goes on to the next word or to game over, the result is in the
\* ledger of the open session, and lives, score, level and comboCount are
\* what they are after a write that succeeds; only the stored data stay as
\* they were.
C19_StorageFailureNotPropagated ==
    [][~storageOk =>
          /\ wordPerformance' = wordPerformance
          /\ sessions' = sessions
          /\ \A t \in BagToSet(tasks) :
                /\ TimeoutShow(t) => IF lives <= 0 THEN GameEnded ELSE SavedAndServed
                /\ IncorrectShow(t) => (lives <= 0 => GameEnded)
                /\ LevelUpDone(t) => SavedAndServed
                /\ CorrectSlide(t) =>
                      (wordsCompletedCorrectly % LevelUpEvery # 0 => SavedAndServed)
                /\ (TimeoutShow(t) \/ IncorrectShow(t) \/ LevelUpDone(t)
                      \/ CorrectSlide(t)) =>
                      /\ lives' = lives /\ score' = score
                      /\ comboCount' = comboCount
                      /\ level' = IF phase' = "level-up" THEN level + 1 ELSE level]_vars

\* the second word is narrated and the first one is in the ledger, although
\* its performance record could not be written
C19_Witness ==
    /\ ~storageOk
    /\ phase = "speaking" /\ nServed = 2
    /\ currentSession.open
    /\ Len(currentSession.wordsPlayed) = 1
    /\ wordPerformance = EmptyMap

\* the record the last call of calculatePriorityScore found for its word
HasRecord ==
    /\ lastWordCall.op = "calculatePriorityScore"
    /\ toLowerCase(lastWordCall.word) \in DOMAIN lastWordCall.map
FoundRecord == lastWordCall.map[toLowerCase(lastWordCall.word)]

\* 100 - 30 * correct + 100 * timeouts + 80 * mistakes, plus 50 when
\* correct / max(total, 1) < 0.5 and total >= 2, plus min(15, 3 * days) when
\* days > 1, and at least 0; age = 3 * days
ClaimedScore(rec, age) ==
    LET total == IF rec.totalAttempts >= 1 THEN rec.totalAttempts ELSE 1
        sum == 100 - 30 * rec.timesCorrectFirstTry + 100 * rec.timesTimeout
                   + 80 * rec.timesMistakes
                   + (IF 2 * rec.timesCorrectFirstTry < total
                         /\ rec.totalAttempts >= 2 THEN 50 ELSE 0)
                   + (IF age > 3 THEN (IF age < 15 THEN age ELSE 15) ELSE 0)
    IN  IF sum > 0 THEN sum ELSE 0

\* C20: calculatePriorityScore returns 1000 for a word that has no record
\* under its lowercased text, and otherwise max(0, 100
\* - 30 * timesCorrectFirstTry + 100 * timesTimeout + 80 * timesMistakes
\* + 50 if timesCorrectFirstTry / max(totalAttempts, 1) < 0.5 and
\* totalAttempts >= 2, + min(15, 3 * daysSinceLastSeen) if
\* daysSinceLastSeen > 1); 2 timeouts in 2 attempts, seen today, give 350.
C20_PriorityScoreFormula ==
    /\ lastWordCall.op = "calculatePriorityScore" =>
          lastWordCall.score =
             IF HasRecord THEN ClaimedScore(FoundRecord, Now - FoundRecord.lastSeen)
             ELSE 1000
    /\ (/\ HasRecord
        /\ FoundRecord.timesTimeout = 2 /\ FoundRecord.totalAttempts = 2
        /\ FoundRecord.timesCorrectFirstTry = 0 /\ FoundRecord.timesMistakes = 0
        /\ FoundRecord.lastSeen = Now) => lastWordCall.score = 350

\* the score of "Cat" was computed from the record filed under "cat": 2
\* timeouts in 2 attempts, seen today
C20_Witness ==
    /\ HasRecord /\ lastWordCall.word = "Cat"
    /\ FoundRecord.timesTimeout = 2 /\ FoundRecord.totalAttempts = 2
    /\ FoundRecord.timesCorrectFirstTry = 0 /\ FoundRecord.timesMistakes = 0
    /\ FoundRecord.lastSeen = Now
    /\ lastWordCall.score = 350

\* the score of the word of the last call when timesCorrectFirstTry of its
\* record is one higher and every other field is the same
RaisedScore ==
    calculatePriorityScore(lastWordCall.word,
        [lastWordCall.map EXCEPT
            ![toLowerCase(lastWordCall.word)].timesCorrectFirstTry = @ + 1])

\* C21: for all performance records, raising timesCorrectFirstTry with
\* every other field held fixed gives a strictly smaller priority score,
\* and the score is never negative.
C21_ScoreStrictlyDecreasing ==
    HasRecord => /\ lastWordCall.score >= 0
                 /\ RaisedScore < lastWordCall.score

\* C21 as amended: the score is never negative; raising
\* timesCorrectFirstTry with every other field held fixed gives a strictly
\* smaller score when the score is positive, and leaves it at 0 when it
\* is 0.
C21_ScoreDecreasingToFloor ==
    HasRecord =>
        /\ lastWordCall.score >= 0
        /\ RaisedScore >= 0
        /\ IF lastWordCall.score > 0
           THEN RaisedScore < lastWordCall.score
           ELSE RaisedScore = 0

\* four first-try successes and nothing else, seen today: the score is at
\* the floor and a fifth success cannot lower it
C21_Witness ==
    /\ HasRecord
    /\ FoundRecord.timesCorrectFirstTry = 4 /\ FoundRecord.totalAttempts = 4
    /\ FoundRecord.timesMistakes = 0 /\ FoundRecord.timesTimeout = 0
    /\ FoundRecord.lastSeen = Now
    /\ lastWordCall.score = 0 /\ RaisedScore = 0

\* C22: an unseen word's priority score of 1000 is the maximum: no word
\* with a performance record scores above 1000, so in the sorted order
\* every unseen word ranks at or before every seen word.
C22_UnseenScoreIsMaximum ==
    /\ (lastWordCall.op = "calculatePriorityScore" /\ ~HasRecord)
          => lastWordCall.score = UnseenScore
    /\ HasRecord => lastWordCall.score <= UnseenScore

\* the priority score of the entry at place i (counted from 0) of the easy
\* session list, under the map of the last initializeSessionWords
ScoreAt(i) ==
    calculatePriorityScore(textOf(sessionWordLists.easy[i + 1]),
                           lastWordCall.map)

\* C23: in the session order built by initializeSessionWords, for all
\* positions i < j that lie in different buckets of 10
\* (floor(i/10) < floor(j/10)) the priority score of the entry at i is >=
\* the score of the entry at j, for every outcome of the within-bucket
\* shuffles.
C23_BucketsInScoreOrder ==
    lastWordCall.op = "initializeSessionWords" =>
        \A i, j \in 0..(Len(sessionWordLists.easy) - 1) :
            (i < j /\ i \div 10 < j \div 10) => ScoreAt(i) >= ScoreAt(j)

\* a seen word with a low score is the only entry of the second bucket, and
\* the first bucket left the shuffle in another order than the configured one
C23_Witness ==
    /\ lastWordCall.op = "initializeSessionWords"
    /\ Len(sessionWordLists.easy) = 11
    /\ ScoreAt(10) < ScoreAt(0)
    /\ ScoreAt(10) < UnseenScore
    /\ sessionWordLists.easy[1] # "jar" /\ sessionWordLists.easy[11] = "dog"

\* the step ends a handleTimeout: the result of the timed-out round is saved
\* and the game goes on or ends
IsTimeoutSaveStep ==
    \E t \in BagToSet(tasks) :
        t.pc = "to_show" /\ CopiesIn(t, tasks') < CopiesIn(t, tasks)

\* the ledger after the step: of the open session, or of the session the
\* step has ended and stored
LedgerAfterStep ==
    IF currentSession'.open THEN currentSession'.wordsPlayed
    ELSE IF Len(sessions') > Len(sessions)
         THEN sessions'[Len(sessions')].wordsPlayed
         ELSE currentSession.wordsPlayed

\* C24: a round that ends by deadline expiry contributes 0 points:
\* GameState.score is unchanged by the round, and every RoundResult recorded
\* for that round has timedOut = true and scoreEarned = 0, whatever the
\* combo and speed state.
C24_TimeoutRoundScoresNothing ==
    [][(IsTimeoutStep \/ IsTimeoutSaveStep) =>
          /\ score' = score
          /\ \A k \in (Len(currentSession.wordsPlayed) + 1)..Len(LedgerAfterStep) :
                /\ LedgerAfterStep[k].timedOut
                /\ LedgerAfterStep[k].scoreEarned = 0]_vars

\* the speed multiplier times 100 for a response time against a deadline,
\* by the share of the deadline used
ClaimedSpeed100(rt, deadline) ==
    CASE 100 * rt < 30 * deadline -> 200
      [] 30 * deadline <= 100 * rt /\ 100 * rt < 50 * deadline -> 150
      [] 50 * deadline <= 100 * rt /\ 100 * rt < 70 * deadline -> 125
      [] OTHER -> 100

ClaimedBase(attempts) ==
    CASE attempts = 1 -> 20 [] attempts = 2 -> 10 [] attempts = 3 -> 5
      [] OTHER -> 2

\* the combo multiplier times 10
ClaimedCombo10(combo) ==
    CASE combo <= 1 -> 10 [] combo = 2 -> 11 [] combo = 3 -> 12
      [] combo = 4 -> 13 [] OTHER -> 15

\* round(base * speed * combo), halves rounded up
ClaimedPoints(attempts, rt, deadline, combo) ==
    LET thousandths == ClaimedBase(attempts) * ClaimedSpeed100(rt, deadline)
                         * ClaimedCombo10(combo)
    IN  (2 * thousandths + 1000) \div 2000

\* the step is a correct answer; the step adds the points of a handler
IsCorrectSubmitStep == currentWordAttempts' = Append(currentWordAttempts, TRUE)
IsSettleStep == nGames' = nGames /\ score' # score

IsTierCall(rt, deadline) ==
    /\ lastGameCall.op = "calculateSpeedMultiplier"
    /\ lastGameCall.responseTime = rt /\ lastGameCall.totalTime = deadline

\* C26: for every responseTime >= 0 and deadline > 0, with
\* pct = 100 * responseTime / deadline, the speed tier is (2.0, lightning)
\* if pct < 30, (1.5, fast) if 30 <= pct < 50, (1.25, good) if
\* 50 <= pct < 70 and (1.0, normal) if pct >= 70; a value exactly at 30, 50
\* or 70 falls into the slower tier.
C26_SpeedTiers ==
    lastGameCall.op = "calculateSpeedMultiplier" =>
        LET rt100 == 100 * lastGameCall.responseTime
            d == lastGameCall.totalTime
            got == <<lastGameCall.result.multiplier, lastGameCall.result.tier>>
        IN  /\ rt100 < 30 * d => got = <<200, "lightning">>
            /\ (30 * d <= rt100 /\ rt100 < 50 * d) => got = <<150, "fast">>
            /\ (50 * d <= rt100 /\ rt100 < 70 * d) => got = <<125, "good">>
            /\ rt100 >= 70 * d => got = <<100, "normal">>

\* exactly 30% of the deadline is fast, not lightning
C26_Witness ==
    /\ IsTierCall(1500, 5000)
    /\ lastGameCall.result = [multiplier |-> 150, tier |-> "fast"]

\* C27: the speed multiplier for a response time of 3000 ms against a
\* deadline of 5000 ms is 1.5 (and it is 2.0 for 1400 ms and 1.0 for 4900 ms
\* against the same deadline).
C27_SpeedExamples ==
    /\ IsTierCall(3000, 5000) => lastGameCall.result.multiplier = 150
    /\ IsTierCall(1400, 5000) => lastGameCall.result.multiplier = 200
    /\ IsTierCall(4900, 5000) => lastGameCall.result.multiplier = 100

\* C27 as amended: the speed multiplier for a response time of 3000 ms
\* against a deadline of 5000 ms is 1.25 (and it is 2.0 for 1400 ms and 1.0
\* for 4900 ms against the same deadline).
C27_SpeedExamplesGood ==
    /\ IsTierCall(3000, 5000) => lastGameCall.result.multiplier = 125
    /\ IsTierCall(1400, 5000) => lastGameCall.result.multiplier = 200
    /\ IsTierCall(4900, 5000) => lastGameCall.result.multiplier = 100

C27_Witness ==
    /\ IsTierCall(3000, 5000)
    /\ lastGameCall.result = [multiplier |-> 125, tier |-> "good"]

\* t is s without its leading and trailing blanks, and is not empty
IsTrimOf(t, s) ==
    /\ t # <<>> /\ t[1] # " " /\ t[Len(t)] # " "
    /\ \E k \in 0..(Len(s) - Len(t)) :
          /\ SubSeq(s, k + 1, k + Len(t)) = t
          /\ \A j \in 1..Len(s) : (j <= k \/ j > k + Len(t)) => s[j] = " "
AllBlank(s) == \A j \in 1..Len(s) : s[j] = " "

\* the places of an entry where one of ' - ', ' en ', ' em ' starts
SeparatorPlaces(e) ==
    {i \in 1..(Len(e) - 2) :
        e[i] = " " /\ e[i + 1] \in {"-", "en", "em"} /\ e[i + 2] = " "}

Normalized(str) == toLowerCaseChars(trim(str))

\* C28: validation compares the trimmed, case-folded input with the
\* trimmed, case-folded target: for every word the scheduler can serve,
\* submitting its text in any letter case and with any surrounding
\* whitespace is judged correct, and any other input is judged incorrect.
C28_ValidationNormalizesBoth ==
    lastGameCall.op = "handleWordSubmit" =>
        (lastGameCall.correct
            <=> Normalized(lastGameCall.value) = Normalized(lastGameCall.text))

\* the step is a direct call of the store; lastStoreCall' holds its arguments
IsStoreCall(ops) ==
    /\ nStoreOps' = nStoreOps + 1
    /\ lastStoreCall'.op \in ops

\* C30: performance data is isolated per player: updateWordPerformance(p, r)
\* and clearWordPerformance(p) leave the performance map of every other
\* player unchanged, and clearWordPerformance() with no player removes the
\* data of all players.
C30_PlayersIsolated ==
    [][/\ IsStoreCall({"update", "clear"}) =>
             \A q \in (DOMAIN wordPerformance \cup DOMAIN wordPerformance')
                        \ {lastStoreCall'.player} :
                /\ q \in DOMAIN wordPerformance
                /\ q \in DOMAIN wordPerformance'
                /\ wordPerformance'[q] = wordPerformance[q]
       /\ IsStoreCall({"clearAll"}) =>
             \A q \in StorePlayers :
                getWordPerformance(wordPerformance', q) = EmptyMap]_vars

\* both players have records and the last call updated one of them
C30_Witness ==
    /\ lastStoreCall.op = "update" /\ lastStoreCall.ok
    /\ lastStoreCall.player = "ann"
    /\ "ann" \in DOMAIN wordPerformance
    /\ "bob" \in DOMAIN wordPerformance
    /\ DOMAIN wordPerformance["bob"] # {}

\* C31: in a session order built from two or more words, a word whose
\* priority score is strictly lower than the score of every other word is
\* never the first word served, for every outcome of the shuffle.
C31_LowestNeverFirst ==
    (lastWordCall.op = "initializeSessionWords"
        /\ Len(sessionWordLists.easy) >= 2) =>
        ~ \A j \in 1..(Len(sessionWordLists.easy) - 1) : ScoreAt(0) < ScoreAt(j)

\* the step ends the crash-animation delay of one handler: its task moves on
\* to the display of the correct spelling
CrashDelayEnds ==
    \E t \in BagToSet(tasks) :
        /\ t.pc \in {"ia_crash", "to_crash"}
        /\ CopiesIn(t, tasks') = CopiesIn(t, tasks) - 1
        /\ LET shown == [t EXCEPT !.pc = IF t.pc = "ia_crash" THEN "ia_show"
                                          ELSE "to_show"]
           IN  CopiesIn(shown, tasks') = CopiesIn(shown, tasks) + 1

\* C32: on an incorrect answer and on a timeout, lives is unchanged in the
\* step that enters crashing and is decremented, exactly once, only after
\* the crash-animation delay has elapsed and before the correct spelling is
\* shown; the decrement never precedes the crash.
C32_LifeLostAfterCrash ==
    [][/\ (phase # "crashing" /\ phase' = "crashing") => lives' = lives
       /\ (nGames' = nGames /\ lives' # lives) =>
             (CrashDelayEnds /\ lives' = lives - 1)
       /\ CrashDelayEnds => lives' = lives - 1]_vars

\* the first life is lost and the correct spelling is on display
C32_Witness ==
    /\ phase = "crashing" /\ lives = MaxLives - 1
    /\ InFlight({"ia_show"})

\* ------------------------------------------------ the game under fairness
\* startGame of a game whose WordManager was loaded with the lists words
StartGameOf(words) ==
    \E p \in Profiles :
       \E lists \in SessionWordListsOf(words, getWordPerformance(wordPerformance, p)) :
          StartGame(p, lists)

\* the pending deadline timer fires
TimerFires == \E tm \in timers : ObstacleTimeout(tm)

\* the delay a handler waits at has elapsed
DelayEnds ==
    \E t \in BagToSet(tasks) :
        \/ CorrectSettle(t) \/ CorrectSlide(t) \/ LevelUpDone(t)
        \/ IncorrectCrash(t) \/ IncorrectShow(t)
        \/ TimeoutCrash(t) \/ TimeoutShow(t)

\* the narration a handler waits for resolves or is rejected
NarrationEnds ==
    \E t \in BagToSet(tasks), resolved \in BOOLEAN :
        NextRoundArm(t, resolved) \/ IncorrectRetry(t, resolved)

\* the steps of one game, without quit, loaded with any of WordConfigs
NextLive ==
    \/ \E words \in WordConfigs : StartGameOf(words)
    \/ \E correct \in BOOLEAN, rt \in ResponseTimes : HandleWordSubmit(correct, rt)
    \/ TimerFires
    \/ DelayEnds
    \/ NarrationEnds

\* every pending timer and delay eventually fires, every narration request
\* eventually resolves or rejects; the player may stay idle
Fairness ==
    /\ WF_vars(TimerFires)
    /\ WF_vars(DelayEnds)
    /\ WF_vars(NarrationEnds)

SpecLive == Init /\ [][NextLive]_vars /\ Fairness

\* ------------------------------------------------------------------ claims
\* the edges of the phase graph; a submit passes through validating within
\* one step, so waiting-input -> jumping and waiting-input -> crashing stand
\* for the two edges through validating as well
ClaimedEdges ==
    {<<"idle", "speaking">>, <<"speaking", "waiting-input">>,
     <<"waiting-input", "validating">>, <<"validating", "jumping">>,
     <<"validating", "crashing">>, <<"waiting-input", "jumping">>,
     <<"waiting-input", "crashing">>, <<"jumping", "level-up">>}
    \cup ({"jumping", "crashing", "level-up"} \X {"speaking", "game-over"})
    \cup (Phases \X {"idle"})

\* C33: every phase change follows an edge of the graph idle -> speaking ->
\* waiting-input -> validating -> {jumping | crashing} -> (level-up)? ->
\* speaking | game-over, plus waiting-input -> crashing on timeout and the
\* return to idle on quit or play-again; in particular waiting-input is
\* entered only from speaking and level-up only from jumping.
C33_PhaseGraph ==
    [][phase' # phase => <<phase, phase'>> \in ClaimedEdges]_vars

\* C34: at most one deadline timer is pending at any time, and it is the one
\* recorded in obstacleTimeoutId, under any interleaving of rounds, retries,
\* quit and restart.
C34_OneDeadlineTimer ==
    /\ Cardinality(timers) <= 1
    /\ \A tm \in timers : tm.id = obstacleTimeoutId

\* a timer is pending while a retry is open in a game started after a quit
C34_Witness ==
    /\ afterQuit /\ nGames = MaxGames
    /\ phase = "waiting-input"
    /\ Len(currentWordAttempts) >= 1
    /\ \E tm \in timers : tm.id = obstacleTimeoutId

\* C35: for a correct answer, score is unchanged in the step that enters
\* jumping (while wordsCompletedCorrectly and combo are already updated); the
\* round's points are added to score exactly once, after the settle delay,
\* before the next round's word is served and before that round's
\* RoundResult is saved.
C35_ScoreAfterSettle ==
    [][/\ (phase # "jumping" /\ phase' = "jumping") =>
             /\ score' = score
             /\ wordsCompletedCorrectly' = wordsCompletedCorrectly + 1
             /\ comboCount' = (IF Len(currentWordAttempts') = 1
                               THEN comboCount + 1 ELSE 0)
             /\ InFlight({"ca_settle"})'
       /\ IsSettleStep =>
             /\ \E t \in BagToSet(tasks) :
                   /\ t.pc = "ca_settle"
                   /\ CopiesIn(t, tasks') = CopiesIn(t, tasks) - 1
                   /\ score' = score + t.points
             /\ ~InFlight({"ca_settle"})'
             /\ nServed' = nServed /\ roundAppends' = roundAppends
       /\ (nServed' # nServed \/ roundAppends' # roundAppends) =>
             ~InFlight({"ca_settle"})]_vars

\* the points of a correct answer are added and its round is not yet saved
C35_Witness ==
    /\ phase = "jumping" /\ score > 0 /\ roundAppends = 0
    /\ InFlight({"ca_slide"})

\* the handler of a correct answer that ends in the step with the save of its
\* round: t is the handler, whose points were added to score
EndsWithSave(t) ==
    /\ t.pc \in {"ca_slide", "ca_levelup"}
    /\ CopiesIn(t, tasks') = CopiesIn(t, tasks) - 1
    /\ Len(LedgerAfterStep) = Len(currentSession.wordsPlayed) + 1

\* the level at which the answer of the handler t was resolved
LevelAtResolution(t) == IF t.pc = "ca_levelup" THEN level - 1 ELSE level

\* C36: for every round resolved by a correct answer, the recorded
\* RoundResult carries the values that earned the points: its comboCount is
\* the streak counted at resolution, and its scoreEarned, speedMultiplier,
\* speedTier and comboMultiplier equal those used to compute the points added
\* to score, including when the round triggers a level-up.
C36_ResultCarriesEarnedValues ==
    [][\A t \in BagToSet(tasks) :
          EndsWithSave(t) =>
             LET r == LedgerAfterStep[Len(LedgerAfterStep)]
                 firstTry == Len(currentWordAttempts) = 1
                 used == calculateSpeedMultiplier(
                             responseTime, obstacleReachTime10(LevelAtResolution(t)))
             IN  /\ r.comboCount = (IF firstTry THEN comboCount ELSE 0)
                 /\ r.comboMultiplier =
                       calculateComboMultiplier(IF firstTry THEN comboCount ELSE 0)
                 /\ r.speedMultiplier = used.multiplier
                 /\ r.speedTier = used.tier
                 /\ r.scoreEarned = t.points]_vars

\* the sum of scoreEarned over the first n rounds of a ledger
RECURSIVE SumEarned(_, _)
SumEarned(wordsPlayed, n) ==
    IF n = 0 THEN 0
    ELSE SumEarned(wordsPlayed, n - 1) + wordsPlayed[n].scoreEarned

\* C37: when a session is persisted (game over or quit), its totalScore
\* equals the sum of scoreEarned over its roundsPlayed.
C37_TotalIsSumOfEarned ==
    \A i \in 1..Len(sessions) :
        sessions[i].totalScore
            = SumEarned(sessions[i].wordsPlayed, Len(sessions[i].wordsPlayed))

\* C38: a session's ledger holds only rounds played in that session: when
\* startGame follows an earlier game over or quit on the same instance,
\* serving the first word appends no RoundResult and makes no
\* PerformanceStore update for a word of the previous session.
C38_FreshLedgerOnStart ==
    [][nGames' = nGames + 1 =>
          /\ currentSession'.wordsPlayed = <<>>
          /\ wordPerformance' = wordPerformance]_vars

\* C39: every session starts with comboCount = 0: after startGame, whatever
\* the previous session's history on the same instance (game over or quit
\* during a streak), the first first-try correct answer is scored with
\* comboMultiplier 1.0.
C39_ComboZeroOnStart ==
    [][nGames' = nGames + 1 => comboCount' = 0]_vars

\* the phases the machine passes through without waiting for the player
TransientPhases == {"speaking", "validating", "jumping", "crashing", "level-up"}

\* the run has used up the rounds it is followed for
RoundsUsedUp == nServed >= RoundsAllowed

\* C40: under fairness the machine never stays forever in speaking,
\* validating, jumping, crashing or level-up: every started round eventually
\* reaches waiting-input, and every waiting-input is eventually left by a
\* submit or a timeout, for every word configuration and level.
C40_NeverStalls ==
    /\ (phase \in TransientPhases) ~> (phase \notin TransientPhases \/ RoundsUsedUp)
    /\ (phase = "speaking") ~> (phase = "waiting-input" \/ RoundsUsedUp)
    /\ (phase = "waiting-input") ~> (phase # "waiting-input" \/ ~MissAllowed)

====
